---- MODULE Spec2Model ----
(***************************************************************************)
(* A model of devel/libecl/src/ecl_grid.c: the corner-point grid, its      *)
(* three index spaces ((i,j,k), global, active), the registration of local *)
(* grid refinements (LGR) with the main grid and the host <-> LGR links.   *)
(*                                                                         *)
(* Grids live in an arena: `grids` maps a handle (the pointer of the C     *)
(* code) to the record of the grid's fields.  A call of a public function  *)
(* is one action; what the call returned, whether it ended in util_abort   *)
(* and which memory it dereferenced is kept in `ret`.                      *)
(***************************************************************************)
EXTENDS Integers, Sequences, FiniteSets, TLC

VARIABLES
  pc,      \* position of the process: "start", "loading", "built", "returned", "aborted", "segv"
  loader,  \* which builder made the grids: "none", "EGRID", "GRID", "ADD"
  grids,   \* the arena: handle -> ecl_grid_struct
  file,    \* the decoded grid file the hierarchy loader is reading
  hist,    \* ghost: what the calls of ecl_grid_add_lgr / install did so far
  ret      \* the last call of a public function: arguments, outcome, reads

vars == <<pc, loader, grids, file, hist, ret>>

(***************************************************************************)
(* Bounds of the model.                                                    *)
(***************************************************************************)
MaxDim == 2        \* nx, ny, nz of a queried grid are in 1..MaxDim
MaxCells == 4      \* and nx*ny*nz <= MaxCells
MaxAdd == 3        \* ecl_grid_add_lgr registers at most MaxAdd grids
MaxPad == 1        \* a looked-up name has at most MaxPad blanks on either side
MaxLgr == 2        \* a loaded file has at most MaxLgr LGR sections,
MaxLgrCells == 2   \* its LGRs have at most MaxLgrCells cells in all,
MaxHostCells == 2  \* and its main grid has at most MaxHostCells cells

NULL == -1         \* a NULL grid pointer; also the "no host cell" value
UNINIT == -2       \* a field malloc/realloc left unset and nobody wrote yet

\* A string is the tuple of its characters; NULLSTR is the NULL char pointer.
NULLSTR == <<"NULL">>

\* The names LGR sections carry.
LgrNames == {<<"A">>, <<"B">>}

\* The name fields of a file, blank padded: of the LGR itself, and of its
\* parent ("" in an EGRID file and "GLOBAL" in a GRID file: the main grid).
RawNames == {<<"A">>, <<"B", " ">>}
RawParentsEGRID == {<<>>, <<" ">>, <<"A">>, <<"B">>}
RawParentsGRID == {<<>>, <<"G", "L", "O", "B", "A", "L">>, <<"A", " ">>, <<"B">>}

\* ACTNUM codes of the column-major (EGRID) input, activity codes on a
\* COORDS record of the explicit-cell (GRID) input.
ActCodes == {-1, 0, 1, 2}
CoordsCodes == {0, 1, 2}

Shapes ==
  {s \in (1..MaxDim) \X (1..MaxDim) \X (1..MaxDim) : s[1] * s[2] * s[3] <= MaxCells}

\* The values an out-of-bounds read may deliver when it does not fault.
GarbageVals == {-1, 0, 1}

(***************************************************************************)
(* C integer arithmetic: `/` truncates towards zero.                       *)
(***************************************************************************)
CDiv(a, b) ==
  IF a >= 0 THEN a \div b ELSE -((-a) \div b)

(***************************************************************************)
(* Points.  A point is the record of its coordinates.  The coordinates of  *)
(* the model are integers: the inputs are multiples of 8, so that the      *)
(* scaling by 1.0/8.0 of ecl_grid_set_center is exact.  A point nobody has *)
(* set holds what malloc left there: the coordinates UNINIT, and what is   *)
(* computed from them is UNINIT again.                                     *)
(***************************************************************************)
point_alloc_empty ==
  [x |-> UNINIT, y |-> UNINIT, z |-> UNINIT]

point_set(x, y, z) ==
  [x |-> x, y |-> y, z |-> z]

point_inplace_add(point, add) ==
  [x |-> point.x + add.x, y |-> point.y + add.y, z |-> point.z + add.z]

\* Scaling by 1.0 / divisor.
point_inplace_scale(point, divisor) ==
  [x |-> CDiv(point.x, divisor), y |-> CDiv(point.y, divisor), z |-> CDiv(point.z, divisor)]

point_inplace_sub(point, sub) ==
  [x |-> point.x - sub.x, y |-> point.y - sub.y, z |-> point.z - sub.z]

\* From the grid's own axes to the map axes: a rotation, then a shift.
point_mapaxes_transform(p, origo, unit_x, unit_y) ==
  [x |-> origo[1] + p.x * unit_x[1] + p.y * unit_y[1],
   y |-> origo[2] + p.x * unit_x[2] + p.y * unit_y[2],
   z |-> p.z]

(***************************************************************************)
(* Cells.                                                                  *)
(***************************************************************************)
ecl_cell_alloc ==
  [active |-> FALSE, active_index |-> UNINIT, lgr |-> NULL, host_cell |-> -1,
   tainted_geometry |-> FALSE,
   center |-> point_alloc_empty,
   corner_list |-> [c \in 0 .. 7 |-> point_alloc_empty]]

\* The cell's corners were never set: its geometry is indeterminate.
CornersUnset(cell) ==
  \E c \in 0 .. 7 : cell.corner_list[c] = point_alloc_empty

\* A slip in ecl_cell_taint_cell: a corner with x = 0 marks the cell,
\* whatever its y.
ecl_cell_taint_cell_x(cell) ==
  IF \E c \in 0 .. 7 : cell.corner_list[c].x = 0
    THEN [cell EXCEPT !.tainted_geometry = TRUE]
    ELSE cell

\* A corner in the origin of the (x,y) plane marks the cell: such cells are
\* written by the simulator for e.g. numerical aquifers.
ecl_cell_taint_cell(cell) ==
  IF CornersUnset(cell)
    THEN [cell EXCEPT !.tainted_geometry = UNINIT]
    ELSE IF \E c \in 0 .. 7 : cell.corner_list[c].x = 0 /\ cell.corner_list[c].y = 0
           THEN [cell EXCEPT !.tainted_geometry = TRUE]
           ELSE cell

ecl_cell_install_lgr(cell, lgr_grid) ==
  [cell EXCEPT !.lgr = lgr_grid]

(***************************************************************************)
(* The geometry of one cell.  The corners 0..3 are the one z-face of the   *)
(* cell and 4..7 the other, deeper one:                                    *)
(*                                                                         *)
(*      2---3        6---7                                                 *)
(*      |   |        |   |                                                 *)
(*      0---1        4---5                                                 *)
(***************************************************************************)
Abs(n) ==
  IF n >= 0 THEN n ELSE -n

Min(S) ==
  CHOOSE m \in S : \A n \in S : m <= n

Max(S) ==
  CHOOSE m \in S : \A n \in S : m >= n

ecl_cell_min_z(cell) ==
  Min({cell.corner_list[c].z : c \in 0 .. 3})

ecl_cell_max_z(cell) ==
  Max({cell.corner_list[c].z : c \in 4 .. 7})

ecl_cell_min_x(cell) ==
  Min({cell.corner_list[c].x : c \in 0 .. 7})

ecl_cell_max_x(cell) ==
  Max({cell.corner_list[c].x : c \in 0 .. 7})

ecl_cell_min_y(cell) ==
  Min({cell.corner_list[c].y : c \in 0 .. 7})

ecl_cell_max_y(cell) ==
  Max({cell.corner_list[c].y : c \in 0 .. 7})

\* A tetrahedron is the record of its four points.  Its volume is a sixth
\* of the triple product of the edges from p0; the model keeps six times
\* the volume, an integer.
tetrahedron_set_shared(p0, p1, p2, p3) ==
  [p0 |-> p0, p1 |-> p1, p2 |-> p2, p3 |-> p3]

tetrahedron_volume(tet) ==
  LET a == point_inplace_sub(tet.p1, tet.p0)
      b == point_inplace_sub(tet.p2, tet.p0)
      c == point_inplace_sub(tet.p3, tet.p0)
  IN  Abs(a.x * (b.y * c.z - b.z * c.y)
          - a.y * (b.x * c.z - b.z * c.x)
          + a.z * (b.x * c.y - b.y * c.x))

\* The point is in the tetrahedron (its faces included) when the four
\* tetrahedra the point makes with the faces fill it; a tetrahedron of no
\* volume contains nothing.
tetrahedron_contains(tet, p) ==
  LET VT == tetrahedron_volume(tet)
      V0 == tetrahedron_volume(tetrahedron_set_shared(p, tet.p1, tet.p2, tet.p3))
      V1 == tetrahedron_volume(tetrahedron_set_shared(tet.p0, p, tet.p2, tet.p3))
      V2 == tetrahedron_volume(tetrahedron_set_shared(tet.p0, tet.p1, p, tet.p3))
      V3 == tetrahedron_volume(tetrahedron_set_shared(tet.p0, tet.p1, tet.p2, p))
  IN  VT > 0 /\ VT = V0 + V1 + V2 + V3

\* tetrahedron_permutations[method][tetrahedron][point] of the C code is
\* tetrahedron_permutations[method + 1][tetrahedron + 1][point + 1] here.
tetrahedron_permutations ==
  << << <<0, 2, 6>>, <<0, 4, 6>>, <<0, 4, 5>>, <<0, 1, 5>>,
        <<1, 3, 7>>, <<1, 5, 7>>, <<2, 3, 7>>, <<2, 6, 7>>,
        <<0, 1, 2>>, <<1, 2, 3>>, <<4, 5, 6>>, <<5, 6, 7>> >>,
     << <<0, 2, 4>>, <<2, 4, 6>>, <<0, 4, 1>>, <<4, 5, 1>>,
        <<1, 3, 5>>, <<3, 5, 7>>, <<2, 3, 6>>, <<3, 6, 7>>,
        <<0, 1, 3>>, <<0, 2, 3>>, <<4, 5, 7>>, <<4, 6, 7>> >> >>

ecl_cell_init_tetrahedron(cell, method_nr, tetrahedron_nr) ==
  LET point0 == tetrahedron_permutations[method_nr + 1][tetrahedron_nr + 1][1]
      point1 == tetrahedron_permutations[method_nr + 1][tetrahedron_nr + 1][2]
      point2 == tetrahedron_permutations[method_nr + 1][tetrahedron_nr + 1][3]
  IN  tetrahedron_set_shared(cell.center, cell.corner_list[point0],
                             cell.corner_list[point1], cell.corner_list[point2])

\* The sum over both decompositions; with tetrahedron_volume six times the
\* volume and the final factor 0.5 left out this is twelve times the volume.
RECURSIVE VolumeLoop(_, _)
VolumeLoop(cell, itet) ==
  IF itet >= 12 THEN 0
  ELSE tetrahedron_volume(ecl_cell_init_tetrahedron(cell, 0, itet))
       + tetrahedron_volume(ecl_cell_init_tetrahedron(cell, 1, itet))
       + VolumeLoop(cell, itet + 1)

ecl_cell_get_volume(cell) ==
  VolumeLoop(cell, 0)

\* Twice the area of the triangle.
triangle_area(x1, y1, x2, y2, x3, y3) ==
  Abs(x1 * y2 + x2 * y3 + x3 * y1 - x1 * y3 - x3 * y2 - x2 * y1)

triangle_contains(p0, p1, p2, x, y) ==
  LET VT == triangle_area(p0.x, p0.y, p1.x, p1.y, p2.x, p2.y)
      V1 == triangle_area(p0.x, p0.y, p1.x, p1.y, x, y)
      V2 == triangle_area(p0.x, p0.y, x, y, p2.x, p2.y)
      V3 == triangle_area(x, y, p1.x, p1.y, p2.x, p2.y)
  IN  VT > 0 /\ VT = V1 + V2 + V3

\* A slip in ecl_cell_layer_contains_xy: the tainted cells are not left out.
ecl_cell_layer_contains_xy_any(cell, lower_layer, x, y) ==
  LET corner_offset == IF lower_layer THEN 0 ELSE 4
      p0 == cell.corner_list[corner_offset + 0]
      p1 == cell.corner_list[corner_offset + 1]
      p2 == cell.corner_list[corner_offset + 2]
      p3 == cell.corner_list[corner_offset + 3]
  IN  triangle_contains(p0, p1, p2, x, y) \/ triangle_contains(p1, p2, p3, x, y)

ecl_cell_layer_contains_xy(cell, lower_layer, x, y) ==
  IF cell.tainted_geometry
    THEN FALSE
    ELSE LET corner_offset == IF lower_layer THEN 0 ELSE 4
             p0 == cell.corner_list[corner_offset + 0]
             p1 == cell.corner_list[corner_offset + 1]
             p2 == cell.corner_list[corner_offset + 2]
             p3 == cell.corner_list[corner_offset + 3]
         IN  triangle_contains(p0, p1, p2, x, y) \/ triangle_contains(p1, p2, p3, x, y)

\* The first of the twelve tetrahedra of decomposition 0, from
\* tetrahedron_nr on, that contains the point.
RECURSIVE ContainsLoop(_, _, _)
ContainsLoop(cell, p, tetrahedron_nr) ==
  IF tetrahedron_contains(ecl_cell_init_tetrahedron(cell, 0, tetrahedron_nr), p)
    THEN TRUE
    ELSE IF tetrahedron_nr + 1 = 12
           THEN FALSE
           ELSE ContainsLoop(cell, p, tetrahedron_nr + 1)

\* What ecl_cell_contains_point comes to: "true", "false", or "abort" when
\* it runs into its util_abort.
ecl_cell_contains_point(cell, p) ==
  CASE cell.tainted_geometry       -> "false"
    [] p.z < ecl_cell_min_z(cell)  -> "false"
    [] p.z > ecl_cell_max_z(cell)  -> "false"
    [] p.x < ecl_cell_min_x(cell)  -> "false"
    [] p.x > ecl_cell_max_x(cell)  -> "false"
    [] p.y < ecl_cell_min_y(cell)  -> "false"
    [] p.y > ecl_cell_max_y(cell)  -> "false"
    [] OTHER ->
         IF ecl_cell_get_volume(cell) > 0
           THEN (IF ContainsLoop(cell, p, 0) THEN "true" ELSE "false")
           ELSE "abort"

(***************************************************************************)
(* Index arithmetic.                                                       *)
(***************************************************************************)
ecl_grid_get_global_index__(g, i, j, k) ==
  i + j * g.nx + k * g.nx * g.ny

ecl_grid_ijk_valid(g, i, j, k) ==
  /\ i >= 0 /\ i < g.nx
  /\ j >= 0 /\ j < g.ny
  /\ k >= 0 /\ k < g.nz

\* A slip in ecl_grid_get_ijk1: the row length taken to be ny instead of nx.
ecl_grid_get_ijk1_rowlen(g, global_index) ==
  LET k  == CDiv(global_index, g.nx * g.ny)
      r1 == global_index - k * (g.nx * g.ny)
      j  == CDiv(r1, g.ny)
      r2 == r1 - j * g.ny
  IN  <<r2, j, k>>

\* global_index -> <<i, j, k>>
ecl_grid_get_ijk1(g, global_index) ==
  LET k  == CDiv(global_index, g.nx * g.ny)
      r1 == global_index - k * (g.nx * g.ny)
      j  == CDiv(r1, g.nx)
      r2 == r1 - j * g.nx
  IN  <<r2, j, k>>

(***************************************************************************)
(* A blank grid.  `self` is the pointer util_malloc returned.  Of the two  *)
(* unit vectors only the first component is assigned (twice: the second    *)
(* assignment wins); init_mapaxes assigns both.  x[n] of the C code is     *)
(* x[n + 1] here.                                                          *)
(***************************************************************************)
ecl_grid_alloc_empty(self, global_grid, nx, ny, nz, grid_nr) ==
  [grid_nr       |-> grid_nr,
   nx            |-> nx,
   ny            |-> ny,
   nz            |-> nz,
   size          |-> nx * ny * nz,
   global_grid   |-> global_grid,
   total_active  |-> UNINIT,
   index_map     |-> <<>>,
   inv_index_map |-> <<>>,
   cells         |-> [c \in 0 .. nx * ny * nz - 1 |-> ecl_cell_alloc],
   visited       |-> <<>>,
   use_mapaxes   |-> IF global_grid # NULL THEN grids[global_grid].use_mapaxes ELSE FALSE,
   unit_x        |-> IF global_grid # NULL THEN <<grids[global_grid].unit_x[1], UNINIT>>
                                           ELSE <<0, UNINIT>>,
   unit_y        |-> IF global_grid # NULL THEN <<grids[global_grid].unit_y[1], UNINIT>>
                                           ELSE <<1, UNINIT>>,
   origo         |-> IF global_grid # NULL THEN grids[global_grid].origo ELSE <<0, 0>>,
   LGR_list      |-> IF grid_nr = 0 THEN <<[ref |-> self, owned |-> FALSE]>> ELSE <<>>,
   LGR_hash      |-> <<>>,
   name          |-> NULLSTR,
   parent_name   |-> NULLSTR,
   parent_grid   |-> NULL,
   children      |-> <<>>]

(***************************************************************************)
(* The column-major (EGRID) builder: the cell at (i,j,k) is active when    *)
(* its ACTNUM code is strictly positive.  ecl_cell_alloc made it inactive, *)
(* and nothing here makes a cell inactive again.                           *)
(***************************************************************************)
\* The corners ecl_grid_set_cell_EGRID stores: corner ip + 4*iz from the
\* crossing of pillar ip with plane iz, in map axes when the grid has them.
CornersEGRID(g, x, y, z) ==
  [c \in 0 .. 7 |->
     LET ip == c % 4
         iz == c \div 4
         p  == point_set(x[ip][iz], y[ip][iz], z[ip][iz])
     IN  IF g.use_mapaxes
           THEN point_mapaxes_transform(p, g.origo, g.unit_x, g.unit_y)
           ELSE p]

\* A slip in ecl_grid_set_cell_EGRID: only the code 1 makes a cell active.
ecl_grid_set_cell_EGRID_one(g, i, j, k, x, y, z, actnum) ==
  LET global_index == ecl_grid_get_global_index__(g, i, j, k)
      set == [g EXCEPT !.cells[global_index].corner_list = CornersEGRID(g, x, y, z)]
  IN  IF actnum[global_index] = 1
        THEN [set EXCEPT !.cells[global_index].active = TRUE]
        ELSE set

ecl_grid_set_cell_EGRID(g, i, j, k, x, y, z, actnum) ==
  LET global_index == ecl_grid_get_global_index__(g, i, j, k)
      set == [g EXCEPT !.cells[global_index].corner_list = CornersEGRID(g, x, y, z)]
  IN  IF actnum[global_index] > 0
        THEN [set EXCEPT !.cells[global_index].active = TRUE]
        ELSE set

\* Where the pillar (its top and bottom point) crosses the two planes z[0],
\* z[1]: <<x, y>> with x[k], y[k] the crossing of plane k.  The quotient is
\* exact for the pillars of the model.
ecl_grid_pillar_cross_planes(pillar, z) ==
  LET e_x == pillar[1].x - pillar[0].x
      e_y == pillar[1].y - pillar[0].y
      e_z == pillar[1].z - pillar[0].z
  IN  <<[k \in 0 .. 1 |-> pillar[0].x + CDiv((z[k] - pillar[0].z) * e_x, e_z)],
        [k \in 0 .. 1 |-> pillar[0].y + CDiv((z[k] - pillar[0].z) * e_y, e_z)]>>

\* MAPAXES is the tuple of its six numbers; mapaxes[n] of the C code is
\* mapaxes[n + 1] here.  The square roots are exact for the axes of the model.
Sqrt(n) ==
  CHOOSE r \in 0 .. n : r * r <= n /\ (r + 1) * (r + 1) > n

ecl_grid_init_mapaxes(g, mapaxes) ==
  LET unit_y == <<mapaxes[1] - mapaxes[3], mapaxes[2] - mapaxes[4]>>
      unit_x == <<mapaxes[5] - mapaxes[3], mapaxes[6] - mapaxes[4]>>
      len_x  == Sqrt(unit_x[1] * unit_x[1] + unit_x[2] * unit_x[2])
      len_y  == Sqrt(unit_y[1] * unit_y[1] + unit_y[2] * unit_y[2])
  IN  [g EXCEPT !.unit_x = <<CDiv(unit_x[1], len_x), CDiv(unit_x[2], len_x)>>,
                !.unit_y = <<CDiv(unit_y[1], len_y), CDiv(unit_y[2], len_y)>>,
                !.origo  = <<mapaxes[3], mapaxes[4]>>,
                !.use_mapaxes = TRUE]

\* A slip in the loop nest of ecl_grid_set_active_index: outer i, inner k.
LoopIJK(g, n) ==
  <<n \div (g.ny * g.nz), (n \div g.nz) % g.ny, n % g.nz>>

\* The n-th (from 0) iteration of a loop nest "outer k, then j, inner i".
LoopKJI(g, n) ==
  <<n % g.nx, (n \div g.nx) % g.ny, n \div (g.nx * g.ny)>>

\* The iterations of the loop nest "j in [j1, j2), i in [0, nx), k in [0, nz)".
RECURSIVE InitColumns(_, _, _, _, _)
InitColumns(g, j, i, k, args) ==
  IF j >= args.j2 THEN g
  ELSE IF i >= g.nx THEN InitColumns(g, j + 1, 0, 0, args)
  ELSE IF k >= g.nz THEN InitColumns(g, j, i + 1, 0, args)
  ELSE LET nx == g.nx
           ny == g.ny
           coord == args.coord
           zcorn == args.zcorn
           pillar_index == [ip \in 0 .. 3 |->
                              6 * ((j + (ip \div 2)) * (nx + 1) + i + (ip % 2))]
           pillars == [ip \in 0 .. 3 |->
                         LET index == pillar_index[ip]
                         IN  [n \in 0 .. 1 |->
                                point_set(coord[index + 3 * n], coord[index + 3 * n + 1],
                                          coord[index + 3 * n + 2])]]
           base(c) == k * 8 * nx * ny + j * 4 * nx + 2 * i + c * 4 * nx * ny
           z == [ip \in 0 .. 3 |->
                   [c \in 0 .. 1 |->
                      zcorn[base(c) + (ip \div 2) * 2 * nx + (ip % 2)]]]
           xy == [ip \in 0 .. 3 |-> ecl_grid_pillar_cross_planes(pillars[ip], z[ip])]
           x == [ip \in 0 .. 3 |-> xy[ip][1]]
           y == [ip \in 0 .. 3 |-> xy[ip][2]]
       IN  InitColumns(ecl_grid_set_cell_EGRID(g, i, j, k, x, y, z, args.actnum),
                       j, i, k + 1, args)

\* A slip in ecl_grid_init_GRDECL_data__: the rows are gone through from
\* row 0 and not from row j1.
ecl_grid_init_GRDECL_data_from0(g, j1, j2, zcorn, coord, actnum) ==
  InitColumns(g, 0, 0, 0, [j2 |-> j2, zcorn |-> zcorn, coord |-> coord, actnum |-> actnum])

\* The rows j1 .. j2 - 1 of the grid.
ecl_grid_init_GRDECL_data__(g, j1, j2, zcorn, coord, actnum) ==
  InitColumns(g, j1, 0, 0, [j2 |-> j2, zcorn |-> zcorn, coord |-> coord, actnum |-> actnum])

\* The centre of a cell: the mean of its eight corners.
ecl_grid_set_center(g) ==
  [g EXCEPT !.cells = [global_index \in DOMAIN g.cells |->
     LET cell == g.cells[global_index]
         sum  == [x |-> cell.corner_list[0].x + cell.corner_list[1].x + cell.corner_list[2].x
                          + cell.corner_list[3].x + cell.corner_list[4].x + cell.corner_list[5].x
                          + cell.corner_list[6].x + cell.corner_list[7].x,
                  y |-> cell.corner_list[0].y + cell.corner_list[1].y + cell.corner_list[2].y
                          + cell.corner_list[3].y + cell.corner_list[4].y + cell.corner_list[5].y
                          + cell.corner_list[6].y + cell.corner_list[7].y,
                  z |-> cell.corner_list[0].z + cell.corner_list[1].z + cell.corner_list[2].z
                          + cell.corner_list[3].z + cell.corner_list[4].z + cell.corner_list[5].z
                          + cell.corner_list[6].z + cell.corner_list[7].z]
     IN  IF CornersUnset(cell)
           THEN cell
           ELSE [cell EXCEPT !.center = point_inplace_scale(sum, 8)]]]

(***************************************************************************)
(* The explicit-cell (GRID) builder.  A COORDS record is the tuple of its  *)
(* 4, 5 or 7 integers: i, j, k (offset 1), the cell number, then the       *)
(* activity code, then the host cell (offset 1, 0 for none) and the        *)
(* coarsening group.  coords[n] of the C code is coords[n + 1] here.       *)
(***************************************************************************)
\* The CORNERS record is the tuple of its 24 numbers: x, y, z of corner 0,
\* then of corner 1, ...; corners[n] of the C code is corners[n + 1] here.
CornersGRID(g, corners) ==
  [c \in 0 .. 7 |->
     LET p == point_set(corners[3 * c + 1], corners[3 * c + 2], corners[3 * c + 3])
     IN  IF g.use_mapaxes
           THEN point_mapaxes_transform(p, g.origo, g.unit_x, g.unit_y)
           ELSE p]

ecl_grid_set_cell_GRID(g, coords, corners) ==
  LET i == coords[1]
      j == coords[2]
      k == coords[3]
      global_index == ecl_grid_get_global_index__(g, i - 1, j - 1, k - 1)
      coords_size  == Len(coords)
      set == CASE coords_size = 4 ->
                    [g EXCEPT !.cells[global_index].active = TRUE]
               [] coords_size = 5 ->
                    [g EXCEPT !.cells[global_index].active = (coords[5] = 1)]
               [] coords_size = 7 ->
                    [g EXCEPT !.cells[global_index].active = (coords[5] = 1),
                              !.cells[global_index].host_cell = coords[6] - 1]
               [] OTHER -> g
  IN  IF global_index \notin DOMAIN g.cells
        THEN g   \* the write lands outside the grid
        ELSE [set EXCEPT !.cells[global_index].corner_list = CornersGRID(g, corners)]

(***************************************************************************)
(* The index refresh.                                                      *)
(***************************************************************************)
RECURSIVE SetActiveIndexLoop(_, _, _)
SetActiveIndexLoop(g, n, active_index) ==
  IF n >= g.size THEN [g EXCEPT !.total_active = active_index]
  ELSE LET ijk == LoopKJI(g, n)
           global_index == ecl_grid_get_global_index__(g, ijk[1], ijk[2], ijk[3])
       IN  IF g.cells[global_index].active
             THEN SetActiveIndexLoop(
                    [g EXCEPT !.cells[global_index].active_index = active_index],
                    n + 1, active_index + 1)
             ELSE SetActiveIndexLoop(
                    [g EXCEPT !.cells[global_index].active_index = -1],
                    n + 1, active_index)

\* A slip in ecl_grid_set_active_index: the counter is advanced for every
\* cell, so total_active ends as the number of cells.
ecl_grid_set_active_index_all(g) ==
  [SetActiveIndexLoop(g, 0, 0) EXCEPT !.total_active = g.size]

ecl_grid_set_active_index(g) ==
  SetActiveIndexLoop(g, 0, 0)

RECURSIVE ReallocIndexMapLoop(_, _)
ReallocIndexMapLoop(g, index) ==
  IF index >= g.size THEN g
  ELSE LET cell == g.cells[index]
       IN  IF cell.active
             THEN ReallocIndexMapLoop(
                    [g EXCEPT !.index_map[index] = cell.active_index,
                              !.inv_index_map[cell.active_index] = index],
                    index + 1)
             ELSE ReallocIndexMapLoop(
                    [g EXCEPT !.index_map[index] = -1], index + 1)

\* A slip in ecl_grid_realloc_index_map: the inverse map entry is written
\* with the active index instead of the global index.
ecl_grid_realloc_index_map_self(g) ==
  [g EXCEPT !.index_map     = [x \in 0 .. g.size - 1 |->
                                 IF g.cells[x].active THEN g.cells[x].active_index ELSE -1],
            !.inv_index_map = [a \in 0 .. g.total_active - 1 |-> a]]

ecl_grid_realloc_index_map(g) ==
  ReallocIndexMapLoop(
    [g EXCEPT !.index_map     = [x \in 0 .. g.size - 1 |-> UNINIT],
              !.inv_index_map = [a \in 0 .. g.total_active - 1 |-> UNINIT]],
    0)

ecl_grid_update_index(g) ==
  ecl_grid_realloc_index_map(ecl_grid_set_active_index(g))

ecl_grid_taint_cells(g) ==
  [g EXCEPT !.cells = [index \in DOMAIN g.cells |-> ecl_cell_taint_cell(g.cells[index])]]

\* mapaxes = <<>>: the NULL pointer, the grid has no MAPAXES.
ecl_grid_alloc_GRDECL_data__(self, global_grid, nx, ny, nz, zcorn, coord, actnum, mapaxes, grid_nr) ==
  LET blank  == ecl_grid_alloc_empty(self, global_grid, nx, ny, nz, grid_nr)
      mapped == IF mapaxes # <<>> THEN ecl_grid_init_mapaxes(blank, mapaxes) ELSE blank
      filled == ecl_grid_init_GRDECL_data__(mapped, 0, ny, zcorn, coord, actnum)
  IN  ecl_grid_taint_cells(ecl_grid_update_index(ecl_grid_set_center(filled)))

RECURSIVE SetCellsGRID(_, _, _, _)
SetCellsGRID(g, coords_kw, corners_kw, index) ==
  IF index > Len(coords_kw) THEN g
  ELSE SetCellsGRID(ecl_grid_set_cell_GRID(g, coords_kw[index], corners_kw[index]),
                    coords_kw, corners_kw, index + 1)

\* coords_kw, corners_kw: the COORDS and the CORNERS records the loop of
\* ecl_grid_alloc_GRID__ reads; mapaxes = <<>>: the file has no MAPAXES.
ecl_grid_alloc_GRID__(self, global_grid, nx, ny, nz, coords_kw, corners_kw, mapaxes, grid_nr) ==
  LET blank  == ecl_grid_alloc_empty(self, global_grid, nx, ny, nz, grid_nr)
      mapped == IF grid_nr = 0 /\ mapaxes # <<>>
                  THEN ecl_grid_init_mapaxes(blank, mapaxes)
                  ELSE blank
      filled == SetCellsGRID(mapped, coords_kw, corners_kw, 1)
  IN  ecl_grid_taint_cells(ecl_grid_update_index(ecl_grid_set_center(filled)))

(***************************************************************************)
(* The outcome of a call.  status is "ok" (the call returned), "abort"     *)
(* (util_abort ended the process) or "ub" (the call read memory outside an *)
(* array: undefined behaviour).  val is the returned integer, ijk the      *)
(* returned triple; c, im and inv are the slots of grid->cells,            *)
(* grid->index_map and grid->inv_index_map the call dereferenced.          *)
(***************************************************************************)
Res(status, val) ==
  [status |-> status, val |-> val, ijk |-> <<>>, xyz |-> <<>>, column |-> <<>>,
   c |-> {}, im |-> {}, inv |-> {}, garbage |-> FALSE]

\* r2 is what the rest of the function did after the step r1 returned.
After(r1, r2) ==
  [r2 EXCEPT !.c = r1.c \cup @, !.im = r1.im \cup @, !.inv = r1.inv \cup @]

\* Dereferencing grid->cells[global_index] to read `val` from the cell.
ReadCell(g, global_index, val) ==
  IF global_index \in 0 .. g.size - 1
    THEN [Res("ok", val) EXCEPT !.c = {global_index}]
    ELSE [Res("ub", 0) EXCEPT !.c = {global_index}]

(***************************************************************************)
(* Index conversions.                                                      *)
(***************************************************************************)
ecl_grid_get_global_index3(g, i, j, k) ==
  IF ecl_grid_ijk_valid(g, i, j, k)
    THEN Res("ok", ecl_grid_get_global_index__(g, i, j, k))
    ELSE Res("abort", -1)

ecl_grid_get_global_index1A(g, active_index) ==
  IF active_index \in DOMAIN g.inv_index_map
    THEN [Res("ok", g.inv_index_map[active_index]) EXCEPT !.inv = {active_index}]
    ELSE [Res("ub", 0) EXCEPT !.inv = {active_index}]

ecl_grid_get_active_index1(g, global_index) ==
  IF global_index \in DOMAIN g.index_map
    THEN [Res("ok", g.index_map[global_index]) EXCEPT !.im = {global_index}]
    ELSE [Res("ub", 0) EXCEPT !.im = {global_index}]

ecl_grid_get_active_index3(g, i, j, k) ==
  LET r == ecl_grid_get_global_index3(g, i, j, k)
  IN  IF r.status # "ok" THEN r
      ELSE After(r, ecl_grid_get_active_index1(g, r.val))

ecl_grid_get_ijk1A(g, active_index) ==
  IF active_index >= 0 /\ active_index < g.total_active
    THEN LET r == ecl_grid_get_global_index1A(g, active_index)
         IN  IF r.status # "ok" THEN r
             ELSE After(r, [Res("ok", 0) EXCEPT !.ijk = ecl_grid_get_ijk1(g, r.val)])
    ELSE Res("abort", 0)

(***************************************************************************)
(* Per-cell queries.  The position and depth queries return coordinates of *)
(* the cell they dereference; which cell that is, is in the outcome's c.   *)
(***************************************************************************)
ecl_grid_get_parent_cell1(g, global_index) ==
  ReadCell(g, global_index,
           IF global_index \in DOMAIN g.cells THEN g.cells[global_index].host_cell ELSE 0)

ecl_grid_get_parent_cell3(g, i, j, k) ==
  ecl_grid_get_parent_cell1(g, ecl_grid_get_global_index__(g, i, j, k))

ecl_grid_get_xyz1(g, global_index) ==
  IF global_index \in DOMAIN g.cells
    THEN [ReadCell(g, global_index, 0) EXCEPT !.xyz = g.cells[global_index].center]
    ELSE ReadCell(g, global_index, 0)

ecl_grid_get_xyz3(g, i, j, k) ==
  ecl_grid_get_xyz1(g, ecl_grid_get_global_index__(g, i, j, k))

ecl_grid_get_xyz1A(g, active_index) ==
  LET r == ecl_grid_get_global_index1A(g, active_index)
  IN  IF r.status # "ok" THEN r ELSE After(r, ecl_grid_get_xyz1(g, r.val))

ecl_grid_get_corner_xyz1(g, global_index, corner_nr) ==
  IF corner_nr >= 0 /\ corner_nr <= 7
    THEN ReadCell(g, global_index, 0)
    ELSE Res("ok", 0)

ecl_grid_get_corner_xyz3(g, i, j, k, corner_nr) ==
  ecl_grid_get_corner_xyz1(g, ecl_grid_get_global_index__(g, i, j, k), corner_nr)

ecl_grid_get_cdepth1(g, global_index) ==
  ReadCell(g, global_index,
           IF global_index \in DOMAIN g.cells THEN g.cells[global_index].center.z ELSE 0)

ecl_grid_get_cdepth3(g, i, j, k) ==
  ecl_grid_get_cdepth1(g, ecl_grid_get_global_index__(g, i, j, k))

\* The mean of four depths: a sum scaled by 0.25.
ecl_grid_get_top1(g, global_index) ==
  ReadCell(g, global_index,
           IF global_index \in DOMAIN g.cells
             THEN LET cell == g.cells[global_index]
                  IN  CDiv(cell.corner_list[0].z + cell.corner_list[1].z
                             + cell.corner_list[2].z + cell.corner_list[3].z, 4)
             ELSE 0)

ecl_grid_get_top3(g, i, j, k) ==
  ecl_grid_get_top1(g, ecl_grid_get_global_index__(g, i, j, k))

ecl_grid_get_top1A(g, active_index) ==
  LET r == ecl_grid_get_global_index1A(g, active_index)
  IN  IF r.status # "ok" THEN r ELSE After(r, ecl_grid_get_top1(g, r.val))

ecl_grid_get_bottom1(g, global_index) ==
  ReadCell(g, global_index,
           IF global_index \in DOMAIN g.cells
             THEN LET cell == g.cells[global_index]
                  IN  CDiv(cell.corner_list[4].z + cell.corner_list[5].z
                             + cell.corner_list[6].z + cell.corner_list[7].z, 4)
             ELSE 0)

ecl_grid_get_bottom3(g, i, j, k) ==
  ecl_grid_get_bottom1(g, ecl_grid_get_global_index__(g, i, j, k))

ecl_grid_get_bottom1A(g, active_index) ==
  LET r == ecl_grid_get_global_index1A(g, active_index)
  IN  IF r.status # "ok" THEN r ELSE After(r, ecl_grid_get_bottom1(g, r.val))

ecl_grid_get_cell_thickness1(g, global_index) ==
  ReadCell(g, global_index,
           IF global_index \in DOMAIN g.cells
             THEN LET cell == g.cells[global_index]
                  IN  CDiv((cell.corner_list[4].z - cell.corner_list[0].z)
                             + (cell.corner_list[5].z - cell.corner_list[1].z)
                             + (cell.corner_list[6].z - cell.corner_list[2].z)
                             + (cell.corner_list[7].z - cell.corner_list[3].z), 4)
             ELSE 0)

ecl_grid_get_cell_thickness3(g, i, j, k) ==
  LET r == ecl_grid_get_global_index3(g, i, j, k)
  IN  IF r.status # "ok" THEN r
      ELSE After(r, ecl_grid_get_cell_thickness1(g, r.val))

\* Twelve times the volume, see ecl_cell_get_volume.
ecl_grid_get_cell_volume1(g, global_index) ==
  ReadCell(g, global_index,
           IF global_index \in DOMAIN g.cells
             THEN ecl_cell_get_volume(g.cells[global_index])
             ELSE 0)

ecl_grid_get_cell_volume3(g, i, j, k) ==
  LET r == ecl_grid_get_global_index3(g, i, j, k)
  IN  IF r.status # "ok" THEN r
      ELSE After(r, ecl_grid_get_cell_volume1(g, r.val))

(***************************************************************************)
(* Point containment and point location.  val is 1 for true, 0 for false.  *)
(***************************************************************************)
ecl_grid_cell_contains_xyz1(g, global_index, x, y, z) ==
  IF global_index \in DOMAIN g.cells
    THEN LET contains == ecl_cell_contains_point(g.cells[global_index], point_set(x, y, z))
         IN  CASE contains = "abort" -> [Res("abort", 0) EXCEPT !.c = {global_index}]
               [] contains = "true"  -> [Res("ok", 1) EXCEPT !.c = {global_index}]
               [] OTHER              -> [Res("ok", 0) EXCEPT !.c = {global_index}]
    ELSE [Res("ub", 0) EXCEPT !.c = {global_index}]

ecl_grid_cell_contains_xyz3(g, i, j, k, x, y, z) ==
  LET r == ecl_grid_get_global_index3(g, i, j, k)
  IN  IF r.status # "ok" THEN r
      ELSE After(r, ecl_grid_cell_contains_xyz1(g, r.val, x, y, z))

\* The loop nest "j, then i" of ecl_grid_get_global_index_from_xy, from its
\* n-th iteration on.
RECURSIVE FromXYLoop(_, _, _, _, _, _)
FromXYLoop(g, k, lower_layer, x, y, n) ==
  IF n >= g.nx * g.ny THEN Res("ok", -1)
  ELSE LET r == ecl_grid_get_global_index3(g, n % g.nx, n \div g.nx, k)
       IN  IF r.status # "ok" THEN r
           ELSE IF ecl_cell_layer_contains_xy(g.cells[r.val], lower_layer, x, y)
                  THEN Res("ok", r.val)
                  ELSE FromXYLoop(g, k, lower_layer, x, y, n + 1)

ecl_grid_get_global_index_from_xy(g, k, lower_layer, x, y) ==
  FromXYLoop(g, k, lower_layer, x, y, 0)

ecl_grid_get_global_index_from_xy_top(g, x, y) ==
  ecl_grid_get_global_index_from_xy(g, g.nz - 1, FALSE, x, y)

ecl_grid_get_global_index_from_xy_bottom(g, x, y) ==
  ecl_grid_get_global_index_from_xy(g, 0, TRUE, x, y)

\* A slip in ecl_grid_clear_visited: the array is set to false when it is
\* allocated, and left as it is when the grid has one already.
ecl_grid_clear_visited_alloc(g) ==
  IF g.visited = <<>>
    THEN [g EXCEPT !.visited = [i \in 0 .. g.size - 1 |-> FALSE]]
    ELSE g

\* The array is allocated by the first search of the grid; every search
\* sets all of it to false.
ecl_grid_clear_visited(g) ==
  [g EXCEPT !.visited = [i \in 0 .. g.size - 1 |-> FALSE]]

(***************************************************************************)
(* The state of a search: the grid (for its visited array), the cells put  *)
(* to ecl_cell_contains_point so far, in order, and how the search stands: *)
(* "go", "found" (val is the cell), "abort".                               *)
(***************************************************************************)
Search(g, tested, status, val) ==
  [grid |-> g, tested |-> tested, status |-> status, val |-> val]

\* One test of a cell in a search that is still going.
TestCell(sr, global_index, p) ==
  LET contains == ecl_cell_contains_point(sr.grid.cells[global_index], p)
      tested   == Append(sr.tested, global_index)
  IN  CASE contains = "abort" -> Search(sr.grid, tested, "abort", -1)
        [] contains = "true"  -> Search(sr.grid, tested, "found", global_index)
        [] OTHER              -> Search(sr.grid, tested, "go", -1)

\* A slip in ecl_grid_box_contains_xyz: a cell that contains the point is
\* found, and the first cell of the box is returned.
RECURSIVE BoxLoop_first(_, _, _, _)
BoxLoop_first(sr, box, p, n) ==
  LET di == box.i2 - box.i1
      dj == box.j2 - box.j1
      dk == box.k2 - box.k1
  IN  IF di <= 0 \/ dj <= 0 \/ dk <= 0 \/ n >= di * dj * dk THEN sr
      ELSE LET r == ecl_grid_get_global_index3(sr.grid, box.i1 + (n % di),
                                               box.j1 + ((n \div di) % dj),
                                               box.k1 + (n \div (di * dj)))
           IN  IF r.status # "ok" THEN Search(sr.grid, sr.tested, "abort", -1)
               ELSE IF sr.grid.visited[r.val] THEN BoxLoop_first(sr, box, p, n + 1)
               ELSE LET marked == [sr EXCEPT !.grid.visited[r.val] = TRUE]
                        test   == TestCell(marked, r.val, p)
                    IN  IF test.status = "found"
                          THEN [test EXCEPT !.val =
                                  ecl_grid_get_global_index__(sr.grid, box.i1, box.j1, box.k1)]
                          ELSE IF test.status = "go"
                                 THEN BoxLoop_first(test, box, p, n + 1)
                                 ELSE test

\* The loop nest "k, then j, inner i" over the box [i1,i2) x [j1,j2) x
\* [k1,k2), from its n-th iteration on.
RECURSIVE BoxLoop(_, _, _, _)
BoxLoop(sr, box, p, n) ==
  LET di == box.i2 - box.i1
      dj == box.j2 - box.j1
      dk == box.k2 - box.k1
  IN  IF di <= 0 \/ dj <= 0 \/ dk <= 0 \/ n >= di * dj * dk THEN sr
      ELSE LET r == ecl_grid_get_global_index3(sr.grid, box.i1 + (n % di),
                                               box.j1 + ((n \div di) % dj),
                                               box.k1 + (n \div (di * dj)))
           IN  IF r.status # "ok" THEN Search(sr.grid, sr.tested, "abort", -1)
               ELSE IF sr.grid.visited[r.val] THEN BoxLoop(sr, box, p, n + 1)
               ELSE LET marked == [sr EXCEPT !.grid.visited[r.val] = TRUE]
                        test   == TestCell(marked, r.val, p)
                    IN  IF test.status = "go"
                          THEN BoxLoop(test, box, p, n + 1)
                          ELSE test

ecl_grid_box_contains_xyz(sr, i1, i2, j1, j2, k1, k2, p) ==
  BoxLoop(sr, [i1 |-> i1, i2 |-> i2, j1 |-> j1, j2 |-> j2, k1 |-> k1, k2 |-> k2], p, 0)

util_int_max(a, b) ==
  IF a > b THEN a ELSE b

util_int_min(a, b) ==
  IF a < b THEN a ELSE b

\* A slip in the full search of ecl_grid_get_global_index_from_xyz: it stops
\* at the last cell of the grid and does not go on from cell 0.
RECURSIVE LinearLoop_nowrap(_, _, _, _)
LinearLoop_nowrap(sr, p, start_index, index) ==
  IF index + start_index >= sr.grid.size
    THEN sr
    ELSE LET test == TestCell(sr, index + start_index, p)
         IN  IF test.status = "go"
               THEN LinearLoop_nowrap(test, p, start_index, index + 1)
               ELSE test

\* The full search from start_index round the grid, from its step `index` on.
RECURSIVE LinearLoop(_, _, _, _)
LinearLoop(sr, p, start_index, index) ==
  LET current_index == (index + start_index) % sr.grid.size
      test == TestCell(sr, current_index, p)
  IN  IF test.status = "go" /\ index + 1 # sr.grid.size
        THEN LinearLoop(test, p, start_index, index + 1)
        ELSE test

\* start_index is in 0 .. size - 1.
ecl_grid_get_global_index_from_xyz(grid, x, y, z, start_index) ==
  LET p     == point_set(x, y, z)
      clear == Search(ecl_grid_clear_visited(grid), <<>>, "go", -1)
      start == TestCell(clear, start_index, p)
      ijk   == ecl_grid_get_ijk1(grid, start_index)
      i     == ijk[1]
      j     == ijk[2]
      k     == ijk[3]
      near  == ecl_grid_box_contains_xyz(start,
                 util_int_max(0, i - 1), util_int_min(grid.nx, i + 1),
                 util_int_max(0, j - 1), util_int_min(grid.ny, j + 1),
                 util_int_max(0, k - 1), util_int_min(grid.nz, k + 1), p)
      far   == ecl_grid_box_contains_xyz(near,
                 util_int_max(0, i - 2), util_int_min(grid.nx, i + 2),
                 util_int_max(0, j - 2), util_int_min(grid.ny, j + 2),
                 util_int_max(0, k - 2), util_int_min(grid.nz, k + 2), p)
  IN  IF start.status # "go" THEN start
      ELSE IF near.status # "go" THEN near
      ELSE IF far.status # "go" THEN far
      ELSE LinearLoop(far, p, start_index, 0)

ecl_grid_get_cell_lgr1(g, global_index) ==
  ReadCell(g, global_index,
           IF global_index \in DOMAIN g.cells THEN g.cells[global_index].lgr ELSE 0)

ecl_grid_get_cell_lgr3(g, i, j, k) ==
  ecl_grid_get_cell_lgr1(g, ecl_grid_get_global_index__(g, i, j, k))

ecl_grid_get_cell_lgr1A(g, active_index) ==
  LET r == ecl_grid_get_global_index1A(g, active_index)
  IN  IF r.status # "ok" THEN r ELSE After(r, ecl_grid_get_cell_lgr1(g, r.val))

(***************************************************************************)
(* Value-by-index lookup in an externally supplied keyword.  A keyword is  *)
(* its element type and its data, a function on 0 .. size - 1.             *)
(***************************************************************************)
ecl_kw_get_size(ecl_kw) ==
  Cardinality(DOMAIN ecl_kw.data)

NumericType(ecl_type) ==
  ecl_type \in {"ECL_FLOAT_TYPE", "ECL_INT_TYPE", "ECL_DOUBLE_TYPE"}

\* A slip in ecl_grid_get_property: a keyword of any other length is looked
\* up by active index instead of ending in util_abort.
ecl_grid_get_property_anylen(g, ecl_kw, i, j, k) ==
  IF NumericType(ecl_kw.type)
    THEN LET kw_size == ecl_kw_get_size(ecl_kw)
             lookup  == IF kw_size = g.nx * g.ny * g.nz
                          THEN ecl_grid_get_global_index3(g, i, j, k)
                          ELSE ecl_grid_get_active_index3(g, i, j, k)
         IN  IF lookup.status # "ok" THEN lookup
             ELSE IF lookup.val >= 0 /\ lookup.val \in DOMAIN ecl_kw.data
               THEN After(lookup, Res("ok", ecl_kw.data[lookup.val]))
               ELSE After(lookup, Res("ok", -1))
    ELSE Res("abort", -1)

ecl_grid_get_property(g, ecl_kw, i, j, k) ==
  IF NumericType(ecl_kw.type)
    THEN LET kw_size == ecl_kw_get_size(ecl_kw)
             lookup  == IF kw_size = g.nx * g.ny * g.nz
                          THEN ecl_grid_get_global_index3(g, i, j, k)
                        ELSE IF kw_size = g.total_active
                          THEN ecl_grid_get_active_index3(g, i, j, k)
                        ELSE Res("abort", -1)
         IN  IF lookup.status # "ok" THEN lookup
             ELSE IF lookup.val >= 0
               THEN After(lookup, Res("ok", ecl_kw.data[lookup.val]))
               ELSE After(lookup, Res("ok", -1))
    ELSE Res("abort", -1)

\* The loop over k; `col` is the column vector filled so far (layer -> value).
RECURSIVE ColumnLoop(_, _, _, _, _, _, _)
ColumnLoop(g, ecl_kw, i, j, k, use_global_index, acc) ==
  IF k >= g.nz THEN acc
  ELSE LET r == IF use_global_index
                  THEN ecl_grid_get_global_index3(g, i, j, k)
                  ELSE ecl_grid_get_active_index3(g, i, j, k)
       IN  IF r.status # "ok" THEN After(acc, r)
           ELSE IF r.val >= 0
             THEN ColumnLoop(g, ecl_kw, i, j, k + 1, use_global_index,
                             After(r, [acc EXCEPT !.column = (k :> ecl_kw.data[r.val]) @@ @]))
             ELSE ColumnLoop(g, ecl_kw, i, j, k + 1, use_global_index, After(r, acc))

ecl_grid_get_column_property(g, ecl_kw, i, j) ==
  IF NumericType(ecl_kw.type)
    THEN LET kw_size == ecl_kw_get_size(ecl_kw)
         IN  IF kw_size = g.nx * g.ny * g.nz
               THEN ColumnLoop(g, ecl_kw, i, j, 0, TRUE, Res("ok", 0))
             ELSE IF kw_size = g.total_active
               THEN ColumnLoop(g, ecl_kw, i, j, 0, FALSE, Res("ok", 0))
             ELSE Res("abort", 0)
    ELSE Res("abort", 0)

(***************************************************************************)
(* Inputs of the single-grid builders.                                     *)
(***************************************************************************)
CellsOf(s) ==
  0 .. s[1] * s[2] * s[3] - 1

Dims(s) ==
  [nx |-> s[1], ny |-> s[2], nz |-> s[3]]

\* The COORDS record of cell global_index in a file whose records have
\* coords_size integers: activity code `code`, no host cell, no coarsening.
CoordsRecord(s, global_index, coords_size, code) ==
  LET ijk  == ecl_grid_get_ijk1(Dims(s), global_index)
      head == <<ijk[1] + 1, ijk[2] + 1, ijk[3] + 1, global_index + 1>>
  IN  CASE coords_size = 4 -> head
        [] coords_size = 5 -> head \o <<code>>
        [] OTHER           -> head \o <<code, 0, 0>>

\* The records of a file, in storage order; recs[c] = NULL: cell c has none.
RECURSIVE CoordsRecords(_, _, _, _)
CoordsRecords(s, recs, coords_size, global_index) ==
  IF global_index >= s[1] * s[2] * s[3] THEN <<>>
  ELSE (IF recs[global_index] = NULL
          THEN <<>>
          ELSE <<CoordsRecord(s, global_index, coords_size, recs[global_index])>>)
       \o CoordsRecords(s, recs, coords_size, global_index + 1)

(***************************************************************************)
(* The geometry of the inputs: cell (i,j,k) is a box of edge CellEdge on a *)
(* lattice that starts in (x0, y0, 0), or, for the cells in `flat`, the    *)
(* bottom face of that box taken twice (a cell of no thickness).  The      *)
(* pillars are vertical.  The z of the file is a depth (sign 1), or an     *)
(* elevation (sign -1): the corners 4..7 of a cell are then the ones with  *)
(* the smaller z.                                                          *)
(***************************************************************************)
CellEdge == 2 * 8

Geometry(x0, y0, flat) ==
  [x0 |-> x0, y0 |-> y0, flat |-> flat, sign |-> 1]

Elevation(geo) ==
  [geo EXCEPT !.sign = -1]

RegularGeometry ==
  Geometry(CellEdge, CellEdge, {})

\* The ZCORN array of a grid of shape s.
ZcornOf(s, geo) ==
  LET nx == s[1]
      ny == s[2]
  IN  [idx \in 0 .. 8 * s[1] * s[2] * s[3] - 1 |->
         LET k    == idx \div (8 * nx * ny)
             r    == idx % (8 * nx * ny)
             c    == r \div (4 * nx * ny)
             r2   == r % (4 * nx * ny)
             j    == (r2 \div (2 * nx)) \div 2
             i    == (r2 % (2 * nx)) \div 2
         IN  geo.sign * CellEdge
               * (k + (IF i + j * nx + k * nx * ny \in geo.flat THEN 0 ELSE c))]

\* The COORD array: six numbers a pillar, the top point then the bottom point.
CoordOf(s, geo) ==
  LET nx == s[1]
  IN  [idx \in 0 .. 6 * (s[1] + 1) * (s[2] + 1) - 1 |->
         LET pillar == idx \div 6
             n      == idx % 6
         IN  CASE n % 3 = 0 -> geo.x0 + CellEdge * (pillar % (nx + 1))
               [] n % 3 = 1 -> geo.y0 + CellEdge * (pillar \div (nx + 1))
               [] n = 2     -> 0
               [] OTHER     -> geo.sign * CellEdge * s[3]]

\* The CORNERS record of cell global_index.
CornersRecord(s, global_index, geo) ==
  LET ijk == ecl_grid_get_ijk1(Dims(s), global_index)
  IN  [n \in 1 .. 24 |->
         LET c == (n - 1) \div 3
         IN  CASE n % 3 = 1 -> geo.x0 + CellEdge * (ijk[1] + (c % 2))
               [] n % 3 = 2 -> geo.y0 + CellEdge * (ijk[2] + ((c \div 2) % 2))
               [] OTHER     -> geo.sign * CellEdge
                                 * (ijk[3] + (IF global_index \in geo.flat
                                                THEN 0 ELSE c \div 4))]

\* The CORNERS records of a file, one for every cell with a COORDS record.
RECURSIVE CornersRecords(_, _, _, _)
CornersRecords(s, recs, geo, global_index) ==
  IF global_index >= s[1] * s[2] * s[3] THEN <<>>
  ELSE (IF recs[global_index] = NULL
          THEN <<>>
          ELSE <<CornersRecord(s, global_index, geo)>>)
       \o CornersRecords(s, recs, geo, global_index + 1)

NoCall ==
  [op |-> "none", args |-> <<>>] @@ Res("ok", 0)

\* The grid the queries are put to.
G == grids[0]

(***************************************************************************)
(* How a call ends.  A read outside an array either faults or delivers     *)
(* whatever is stored there.                                               *)
(***************************************************************************)
Return(op, args, r) ==
  /\ \/ /\ r.status = "ok"
        /\ ret' = [op |-> op, args |-> args] @@ r
        /\ pc' = "returned"
     \/ /\ r.status = "abort"
        /\ ret' = [op |-> op, args |-> args] @@ r
        /\ pc' = "aborted"
     \/ /\ r.status = "ub"
        /\ \E v \in GarbageVals :
             ret' = [op |-> op, args |-> args]
                      @@ [r EXCEPT !.status = "ok", !.val = v, !.garbage = TRUE]
        /\ pc' = "returned"
     \/ /\ r.status = "ub"
        /\ ret' = [op |-> op, args |-> args] @@ [r EXCEPT !.status = "segv"]
        /\ pc' = "segv"
  /\ UNCHANGED <<loader, grids, file, hist>>

\* The caller has used what the call returned and goes on.
Resume ==
  /\ pc = "returned"
  /\ pc' = "built"
  /\ ret' = NoCall
  /\ UNCHANGED <<loader, grids, file, hist>>

(***************************************************************************)
(* Building one grid.                                                      *)
(***************************************************************************)
ecl_grid_alloc_GRDECL_data ==
  /\ pc = "start"
  /\ \E s \in Shapes :
       \E actnum \in [CellsOf(s) -> ActCodes] :
         grids' = (0 :> ecl_grid_alloc_GRDECL_data__(0, NULL, s[1], s[2], s[3],
                       ZcornOf(s, RegularGeometry), CoordOf(s, RegularGeometry),
                       actnum, <<>>, 0))
  /\ pc' = "built"
  /\ loader' = "EGRID"
  /\ UNCHANGED <<file, hist, ret>>

\* ecl_grid_alloc_GRID on a file that holds one grid (one DIMENS keyword).
ecl_grid_alloc_GRID_single ==
  /\ pc = "start"
  /\ \E s \in Shapes :
       \E coords_size \in {4, 5, 7} :
         \E recs \in [CellsOf(s) -> CoordsCodes \cup {NULL}] :
           grids' = (0 :> ecl_grid_alloc_GRID__(0, NULL, s[1], s[2], s[3],
                                                 CoordsRecords(s, recs, coords_size, 0),
                                                 CornersRecords(s, recs, RegularGeometry, 0),
                                                 <<>>, 0))
  /\ pc' = "built"
  /\ loader' = "GRID"
  /\ UNCHANGED <<file, hist, ret>>

(***************************************************************************)
(* Calls of the public query functions on the built grid.                  *)
(***************************************************************************)
IArgs == -1 .. G.nx
JArgs == -1 .. G.ny
KArgs == -1 .. G.nz
GlobalArgs == -1 .. G.size
ActiveArgs == -1 .. G.size

Call_get_global_index3 ==
  /\ pc = "built"
  /\ \E i \in IArgs, j \in JArgs, k \in KArgs :
       Return("ecl_grid_get_global_index3", <<i, j, k>>, ecl_grid_get_global_index3(G, i, j, k))

Call_get_ijk1 ==
  /\ pc = "built"
  /\ \E global_index \in GlobalArgs :
       Return("ecl_grid_get_ijk1", <<global_index>>,
              [Res("ok", 0) EXCEPT !.ijk = ecl_grid_get_ijk1(G, global_index)])

Call_get_active_index1 ==
  /\ pc = "built"
  /\ \E global_index \in GlobalArgs :
       Return("ecl_grid_get_active_index1", <<global_index>>,
              ecl_grid_get_active_index1(G, global_index))

Call_get_active_index3 ==
  /\ pc = "built"
  /\ \E i \in IArgs, j \in JArgs, k \in KArgs :
       Return("ecl_grid_get_active_index3", <<i, j, k>>, ecl_grid_get_active_index3(G, i, j, k))

Call_get_global_index1A ==
  /\ pc = "built"
  /\ \E active_index \in ActiveArgs :
       Return("ecl_grid_get_global_index1A", <<active_index>>,
              ecl_grid_get_global_index1A(G, active_index))

Call_get_ijk1A ==
  /\ pc = "built"
  /\ \E active_index \in ActiveArgs :
       Return("ecl_grid_get_ijk1A", <<active_index>>, ecl_grid_get_ijk1A(G, active_index))

Call_get_xyz3 ==
  /\ pc = "built"
  /\ \E i \in IArgs, j \in JArgs, k \in KArgs :
       Return("ecl_grid_get_xyz3", <<i, j, k>>, ecl_grid_get_xyz3(G, i, j, k))

Call_get_corner_xyz3 ==
  /\ pc = "built"
  /\ \E i \in IArgs, j \in JArgs, k \in KArgs, corner_nr \in {0, 7, 8} :
       Return("ecl_grid_get_corner_xyz3", <<i, j, k, corner_nr>>,
              ecl_grid_get_corner_xyz3(G, i, j, k, corner_nr))

Call_get_cdepth3 ==
  /\ pc = "built"
  /\ \E i \in IArgs, j \in JArgs, k \in KArgs :
       Return("ecl_grid_get_cdepth3", <<i, j, k>>, ecl_grid_get_cdepth3(G, i, j, k))

Call_get_top3 ==
  /\ pc = "built"
  /\ \E i \in IArgs, j \in JArgs, k \in KArgs :
       Return("ecl_grid_get_top3", <<i, j, k>>, ecl_grid_get_top3(G, i, j, k))

Call_get_bottom3 ==
  /\ pc = "built"
  /\ \E i \in IArgs, j \in JArgs, k \in KArgs :
       Return("ecl_grid_get_bottom3", <<i, j, k>>, ecl_grid_get_bottom3(G, i, j, k))

Call_get_cell_lgr3 ==
  /\ pc = "built"
  /\ \E i \in IArgs, j \in JArgs, k \in KArgs :
       Return("ecl_grid_get_cell_lgr3", <<i, j, k>>, ecl_grid_get_cell_lgr3(G, i, j, k))

Call_get_parent_cell3 ==
  /\ pc = "built"
  /\ \E i \in IArgs, j \in JArgs, k \in KArgs :
       Return("ecl_grid_get_parent_cell3", <<i, j, k>>, ecl_grid_get_parent_cell3(G, i, j, k))

Call_get_xyz1A ==
  /\ pc = "built"
  /\ \E active_index \in ActiveArgs :
       Return("ecl_grid_get_xyz1A", <<active_index>>, ecl_grid_get_xyz1A(G, active_index))

Call_get_top1A ==
  /\ pc = "built"
  /\ \E active_index \in ActiveArgs :
       Return("ecl_grid_get_top1A", <<active_index>>, ecl_grid_get_top1A(G, active_index))

Call_get_bottom1A ==
  /\ pc = "built"
  /\ \E active_index \in ActiveArgs :
       Return("ecl_grid_get_bottom1A", <<active_index>>, ecl_grid_get_bottom1A(G, active_index))

Call_get_cell_lgr1A ==
  /\ pc = "built"
  /\ \E active_index \in ActiveArgs :
       Return("ecl_grid_get_cell_lgr1A", <<active_index>>, ecl_grid_get_cell_lgr1A(G, active_index))

\* Keywords of every length from 0 to one more than the grid has cells; the
\* element at index n is 100 + n, so the element tells the slot it came from.
KwTypes == {"ECL_INT_TYPE", "ECL_DOUBLE_TYPE", "ECL_CHAR_TYPE"}

KwArgs ==
  {[type |-> t, data |-> [n \in 0 .. len - 1 |-> 100 + n]] :
     t \in KwTypes, len \in 0 .. G.size + 1}

Call_get_property ==
  /\ pc = "built"
  /\ \E ecl_kw \in KwArgs, i \in IArgs, j \in JArgs, k \in KArgs :
       Return("ecl_grid_get_property", <<ecl_kw, i, j, k>>,
              ecl_grid_get_property(G, ecl_kw, i, j, k))

Call_get_column_property ==
  /\ pc = "built"
  /\ \E ecl_kw \in KwArgs, i \in IArgs, j \in JArgs :
       Return("ecl_grid_get_column_property", <<ecl_kw, i, j>>,
              ecl_grid_get_column_property(G, ecl_kw, i, j))

(***************************************************************************)
(* SpecGrid: one grid is built by either builder and then queried.         *)
(***************************************************************************)
InitGrid ==
  /\ pc = "start"
  /\ loader = "none"
  /\ grids = <<>>
  /\ file = <<>>
  /\ hist = <<>>
  /\ ret = NoCall

NextGrid ==
  \/ ecl_grid_alloc_GRDECL_data
  \/ ecl_grid_alloc_GRID_single
  \/ Call_get_global_index3
  \/ Call_get_ijk1
  \/ Call_get_active_index1
  \/ Call_get_active_index3
  \/ Call_get_global_index1A
  \/ Call_get_ijk1A
  \/ Call_get_xyz3
  \/ Call_get_corner_xyz3
  \/ Call_get_cdepth3
  \/ Call_get_top3
  \/ Call_get_bottom3
  \/ Call_get_cell_lgr3
  \/ Call_get_parent_cell3
  \/ Call_get_xyz1A
  \/ Call_get_top1A
  \/ Call_get_bottom1A
  \/ Call_get_cell_lgr1A
  \/ Call_get_property
  \/ Call_get_column_property
  \/ Resume

SpecGrid == InitGrid /\ [][NextGrid]_vars

(***************************************************************************)
(* Properties of one built grid (SpecGrid).                                *)
(***************************************************************************)
Built == pc \in {"built", "returned", "aborted", "segv"}

ValidIJK(g) ==
  {t \in (0 .. g.nx - 1) \X (0 .. g.ny - 1) \X (0 .. g.nz - 1) : TRUE}

ActiveCells(g) ==
  {c \in DOMAIN g.cells : g.cells[c].active}

\* C1: for every valid (i,j,k) ecl_grid_get_global_index3 returns
\* i + j*nx + k*nx*ny and ecl_grid_get_ijk1 of that index gives back (i,j,k);
\* for every global index in [0, nx*ny*nz) ecl_grid_get_global_index3 of its
\* ecl_grid_get_ijk1 triple gives back the index.  Stated of every built grid
\* and of the calls made on it.
C1_IjkGlobalRoundTrip ==
  Built =>
    /\ \A t \in ValidIJK(G) :
         LET r == ecl_grid_get_global_index3(G, t[1], t[2], t[3])
         IN  /\ r.status = "ok"
             /\ r.val = t[1] + t[2] * G.nx + t[3] * G.nx * G.ny
             /\ ecl_grid_get_ijk1(G, r.val) = t
    /\ \A global_index \in 0 .. G.size - 1 :
         LET t == ecl_grid_get_ijk1(G, global_index)
             r == ecl_grid_get_global_index3(G, t[1], t[2], t[3])
         IN  r.status = "ok" /\ r.val = global_index
    /\ (ret.op = "ecl_grid_get_global_index3" /\ ret.args \in ValidIJK(G)) =>
         /\ ret.status = "ok"
         /\ ret.val = ret.args[1] + ret.args[2] * G.nx + ret.args[3] * G.nx * G.ny
         /\ ecl_grid_get_ijk1(G, ret.val) = ret.args
    /\ (ret.op = "ecl_grid_get_ijk1" /\ ret.args[1] \in 0 .. G.size - 1) =>
         /\ ret.status = "ok"
         /\ ecl_grid_get_global_index3(G, ret.ijk[1], ret.ijk[2], ret.ijk[3]).val = ret.args[1]

\* C1 witness: ecl_grid_get_ijk1 has returned (0,1,1) for global index 3 of a
\* grid with nx = 1, ny = 2, nz = 2.
C1_Witness ==
  /\ pc = "returned"
  /\ ret.op = "ecl_grid_get_ijk1"
  /\ G.nx = 1 /\ G.ny = 2 /\ G.nz = 2
  /\ ret.args = <<3>>
  /\ ret.ijk = <<0, 1, 1>>

\* C2: after the index refresh index_map[g] is the cell's active_index, which
\* is -1 exactly when the cell is inactive, and inv_index_map is the inverse
\* of index_map on the active cells: the active -> global conversion of the
\* global -> active conversion of an active cell is that cell.
C2_IndexMapsInverse ==
  Built =>
    /\ DOMAIN G.index_map = 0 .. G.size - 1
    /\ \A c \in 0 .. G.size - 1 :
         /\ G.index_map[c] = G.cells[c].active_index
         /\ (G.cells[c].active_index = -1) <=> ~G.cells[c].active
         /\ ecl_grid_get_active_index1(G, c).val = G.cells[c].active_index
    /\ \A c \in ActiveCells(G) :
         LET a == ecl_grid_get_active_index1(G, c)
             b == ecl_grid_get_global_index1A(G, a.val)
         IN  a.status = "ok" /\ b.status = "ok" /\ b.val = c
    /\ \A a \in DOMAIN G.inv_index_map :
         /\ G.inv_index_map[a] \in ActiveCells(G)
         /\ G.index_map[G.inv_index_map[a]] = a
    /\ (ret.op = "ecl_grid_get_active_index1" /\ ret.args[1] \in 0 .. G.size - 1) =>
         /\ ret.status = "ok"
         /\ (ret.val = -1) <=> ~G.cells[ret.args[1]].active
         /\ ret.val # -1 => ecl_grid_get_global_index1A(G, ret.val).val = ret.args[1]

\* C2 witness: a grid whose cell 0 is inactive and whose cell 1 is active;
\* the global -> active conversion of cell 1 has returned 0.
C2_Witness ==
  /\ pc = "returned"
  /\ ret.op = "ecl_grid_get_active_index1"
  /\ ret.args = <<1>>
  /\ ret.val = 0
  /\ G.size >= 2
  /\ ~G.cells[0].active
  /\ G.inv_index_map[0] = 1

\* C4: the active index of an active cell is the number of active cells with
\* a smaller global index, so active indices increase with the global index;
\* for grids of the column-major (EGRID) builder and of the explicit-cell
\* (GRID) builder.
C4_ActiveIndexOrder ==
  Built =>
    /\ loader \in {"EGRID", "GRID"}
    /\ \A c \in ActiveCells(G) :
         G.cells[c].active_index = Cardinality({d \in ActiveCells(G) : d < c})
    /\ \A c, d \in ActiveCells(G) :
         c < d => G.cells[c].active_index < G.cells[d].active_index

\* C4 witness: a 2 x 2 x 1 grid of the explicit-cell builder with cells 1, 2
\* and 3 active: cell 2 = (0,1,0) has active index 1, cell 1 = (1,0,0) has 0.
C4_Witness ==
  /\ pc = "built"
  /\ loader = "GRID"
  /\ G.nx = 2 /\ G.ny = 2 /\ G.nz = 1
  /\ ActiveCells(G) = {1, 2, 3}
  /\ G.cells[1].active_index = 0
  /\ G.cells[2].active_index = 1
  /\ G.cells[3].active_index = 2

\* The same for the column-major builder.
C4_WitnessEGRID ==
  /\ pc = "built"
  /\ loader = "EGRID"
  /\ G.nx = 2 /\ G.ny = 2 /\ G.nz = 1
  /\ ActiveCells(G) = {1, 2, 3}
  /\ G.cells[2].active_index = 1

Ops3 ==
  {"ecl_grid_get_global_index3", "ecl_grid_get_active_index3", "ecl_grid_get_xyz3",
   "ecl_grid_get_corner_xyz3", "ecl_grid_get_cdepth3", "ecl_grid_get_top3",
   "ecl_grid_get_bottom3", "ecl_grid_get_cell_lgr3", "ecl_grid_get_parent_cell3"}

Ops1A ==
  {"ecl_grid_get_global_index1A", "ecl_grid_get_ijk1A", "ecl_grid_get_xyz1A",
   "ecl_grid_get_top1A", "ecl_grid_get_bottom1A", "ecl_grid_get_cell_lgr1A"}

\* C5 (as claimed): every public operation that takes (i,j,k) ends in
\* util_abort, having read no cell, when (i,j,k) is outside the grid.
C5_OutOfRangeIJKAborts ==
  (ret.op \in Ops3 /\ ~ecl_grid_ijk_valid(G, ret.args[1], ret.args[2], ret.args[3])) =>
    /\ ret.status = "abort"
    /\ ret.c = {}

\* C5, the part the code keeps: the two conversions that go through
\* ecl_grid_ijk_valid abort on (i,j,k) outside the grid and read nothing.
C5_CheckedOpsAbort ==
  (/\ ret.op \in {"ecl_grid_get_global_index3", "ecl_grid_get_active_index3"}
   /\ ~ecl_grid_ijk_valid(G, ret.args[1], ret.args[2], ret.args[3])) =>
    /\ ret.status = "abort"
    /\ ret.c = {} /\ ret.im = {}

\* C5: ecl_grid_get_parent_cell3 called with i = nx (one past the row) has
\* returned, after reading the cell (0, j+1, k) of the grid.
C5_AliasedRead ==
  /\ ret.op = "ecl_grid_get_parent_cell3"
  /\ ret.args[1] = G.nx
  /\ ret.status = "ok"
  /\ ~ret.garbage
  /\ ret.c = {ecl_grid_get_global_index__(G, 0, ret.args[2] + 1, ret.args[3])}

\* C6 (as claimed): every operation that converts or dereferences an active
\* index ends in util_abort when the index is outside [0, total_active), and
\* never reads inv_index_map outside its total_active entries.
C6_BadActiveIndexAborts ==
  ret.op \in Ops1A =>
    /\ ret.args[1] \notin 0 .. G.total_active - 1 => ret.status = "abort"
    /\ ret.inv \subseteq 0 .. G.total_active - 1

\* C6, the part the code keeps: ecl_grid_get_ijk1A aborts on an active index
\* outside [0, total_active) and reads inv_index_map only inside it.
C6_Ijk1AAborts ==
  ret.op = "ecl_grid_get_ijk1A" =>
    /\ ret.args[1] \notin 0 .. G.total_active - 1 => (ret.status = "abort" /\ ret.inv = {})
    /\ ret.inv \subseteq 0 .. G.total_active - 1

\* C7: ecl_grid_get_property on a numeric keyword and a valid (i,j,k) returns
\* the element at the global index when the keyword has nx*ny*nz elements;
\* else, when it has total_active elements, the element at the active index
\* of an active cell and -1 for an inactive cell; for any other length it
\* ends in util_abort.  ecl_grid_get_column_property ends in util_abort on
\* any other length too.
C7_PropertyByLength ==
  /\ (/\ ret.op = "ecl_grid_get_property"
      /\ NumericType(ret.args[1].type)
      /\ ecl_grid_ijk_valid(G, ret.args[2], ret.args[3], ret.args[4])) =>
       LET kw  == ret.args[1]
           len == ecl_kw_get_size(kw)
           gi  == ret.args[2] + ret.args[3] * G.nx + ret.args[4] * G.nx * G.ny
       IN  IF len = G.nx * G.ny * G.nz
             THEN ret.status = "ok" /\ ret.val = kw.data[gi]
           ELSE IF len = G.total_active
             THEN /\ ret.status = "ok"
                  /\ ret.val = IF G.cells[gi].active
                                 THEN kw.data[G.cells[gi].active_index]
                                 ELSE -1
           ELSE ret.status = "abort"
  /\ (/\ ret.op = "ecl_grid_get_column_property"
      /\ ecl_kw_get_size(ret.args[1]) \notin {G.nx * G.ny * G.nz, G.total_active}) =>
       (ret.status = "abort" /\ ret.column = <<>>)

\* C7 witness: a keyword with total_active < nx*ny*nz elements was looked up
\* at an active cell whose active index differs from its global index.
C7_Witness ==
  /\ pc = "returned"
  /\ ret.op = "ecl_grid_get_property"
  /\ ecl_kw_get_size(ret.args[1]) = G.total_active
  /\ G.total_active < G.size
  /\ ret.args[2] = 1 /\ ret.args[3] = 1 /\ ret.args[4] = 0
  /\ ret.val = 101

\* A keyword of a length that is neither count ended the call in util_abort.
C7_WitnessAbort ==
  /\ pc = "aborted"
  /\ ret.op = "ecl_grid_get_property"
  /\ NumericType(ret.args[1].type)
  /\ ecl_grid_ijk_valid(G, ret.args[2], ret.args[3], ret.args[4])
  /\ ecl_kw_get_size(ret.args[1]) \notin {G.size, G.total_active}

(***************************************************************************)
(* Registration of LGR grids with the main grid.  vector_append_owned_ref  *)
(* appends to LGR_list an entry that owns the grid; hash_insert_ref        *)
(* stores (or replaces) the reference kept under the grid's name.          *)
(***************************************************************************)
vector_get_size(vector) ==
  Len(vector)

\* The element at index `index`, counted from 0.
vector_iget(vector, index) ==
  vector[index + 1]

hash_insert_ref(hash, key, value) ==
  (key :> value) @@ hash

\* A slip in ecl_grid_add_lgr: the occurrence number is compared with the
\* number of LGRs registered so far, which does not count the main grid's
\* own entry at position 0.
ecl_grid_add_lgr_numlgr(main_grid, lgr, lgr_grid) ==
  LET next_grid_nr == vector_get_size(main_grid.LGR_list) - 1
  IN  IF next_grid_nr # lgr_grid.grid_nr
        THEN [status |-> "abort", main |-> main_grid]
        ELSE [status |-> "ok",
              main   |-> [main_grid EXCEPT
                            !.LGR_list = Append(@, [ref |-> lgr, owned |-> TRUE]),
                            !.LGR_hash = hash_insert_ref(@, lgr_grid.name, lgr)]]

\* A slip in ecl_grid_add_lgr: the occurrence number is not checked.
ecl_grid_add_lgr_unchecked(main_grid, lgr, lgr_grid) ==
  [status |-> "ok",
   main   |-> [main_grid EXCEPT
                 !.LGR_list = Append(@, [ref |-> lgr, owned |-> TRUE]),
                 !.LGR_hash = hash_insert_ref(@, lgr_grid.name, lgr)]]

\* main_grid, lgr_grid: the grids' fields; lgr: the LGR's pointer.  Gives the
\* outcome and the main grid's fields after the call.
ecl_grid_add_lgr(main_grid, lgr, lgr_grid) ==
  LET next_grid_nr == vector_get_size(main_grid.LGR_list)
  IN  IF next_grid_nr # lgr_grid.grid_nr
        THEN [status |-> "abort", main |-> main_grid]
        ELSE [status |-> "ok",
              main   |-> [main_grid EXCEPT
                            !.LGR_list = Append(@, [ref |-> lgr, owned |-> TRUE]),
                            !.LGR_hash = hash_insert_ref(@, lgr_grid.name, lgr)]]

\* __assert_main_grid: TRUE when the call goes on, FALSE when it aborts.
assert_main_grid(g) ==
  g.grid_nr = 0

ecl_grid_get_num_lgr(main_grid) ==
  IF assert_main_grid(main_grid)
    THEN Res("ok", vector_get_size(main_grid.LGR_list) - 1)
    ELSE Res("abort", 0)

\* The returned value is the pointer (the handle) of the LGR.  vector_iget on
\* an index the vector does not have fails hard.
ecl_grid_iget_lgr(main_grid, lgr_nr) ==
  IF assert_main_grid(main_grid)
    THEN IF lgr_nr + 1 \in 0 .. vector_get_size(main_grid.LGR_list) - 1
           THEN Res("ok", vector_iget(main_grid.LGR_list, lgr_nr + 1).ref)
           ELSE Res("abort", 0)
    ELSE Res("abort", 0)

ecl_grid_get_grid_nr(g) ==
  Res("ok", g.grid_nr)


(***************************************************************************)
(* Names.  util_alloc_strip_copy gives the string without its leading and  *)
(* trailing blanks.                                                        *)
(***************************************************************************)
RECURSIVE StripLeading(_)
StripLeading(str) ==
  IF str # <<>> /\ Head(str) = " " THEN StripLeading(Tail(str)) ELSE str

RECURSIVE StripTrailing(_)
StripTrailing(str) ==
  IF str # <<>> /\ str[Len(str)] = " "
    THEN StripTrailing(SubSeq(str, 1, Len(str) - 1))
    ELSE str

util_alloc_strip_copy(str) ==
  StripTrailing(StripLeading(str))

ecl_grid_set_lgr_name_EGRID(lgr_grid, lgrname_kw, parent_kw) ==
  LET parent == util_alloc_strip_copy(parent_kw)
  IN  [lgr_grid EXCEPT
         !.name        = util_alloc_strip_copy(lgrname_kw),
         !.parent_name = IF Len(parent) > 0 THEN parent ELSE @]

ecl_grid_set_lgr_name_GRID(lgr_grid, lgr_kw0, lgr_kw1) ==
  LET parent == util_alloc_strip_copy(lgr_kw1)
  IN  [lgr_grid EXCEPT
         !.name        = util_alloc_strip_copy(lgr_kw0),
         !.parent_name = IF Len(parent) = 0 \/ parent = <<"G", "L", "O", "B", "A", "L">>
                           THEN @ ELSE parent]

\* A slip in ecl_grid_get_lgr: the name is looked up as it was given.
ecl_grid_get_lgr_nostrip(main_grid, lgr_name_arg) ==
  IF assert_main_grid(main_grid)
    THEN IF lgr_name_arg \in DOMAIN main_grid.LGR_hash
           THEN Res("ok", main_grid.LGR_hash[lgr_name_arg])
           ELSE Res("abort", 0)
    ELSE Res("abort", 0)

\* The returned value is the pointer of the LGR.  hash_get fails hard when
\* no LGR is installed under the name.
ecl_grid_get_lgr(main_grid, lgr_name_arg) ==
  IF assert_main_grid(main_grid)
    THEN LET lgr_name == util_alloc_strip_copy(lgr_name_arg)
         IN  IF lgr_name \in DOMAIN main_grid.LGR_hash
               THEN Res("ok", main_grid.LGR_hash[lgr_name])
               ELSE Res("abort", 0)
    ELSE Res("abort", 0)

\* The returned value is 1 for true and 0 for false.
ecl_grid_has_lgr(main_grid, lgr_name_arg) ==
  IF assert_main_grid(main_grid)
    THEN LET lgr_name == util_alloc_strip_copy(lgr_name_arg)
         IN  Res("ok", IF lgr_name \in DOMAIN main_grid.LGR_hash THEN 1 ELSE 0)
    ELSE Res("abort", 0)

(***************************************************************************)
(* Linking host cells and LGR cells.  The operators work on the arena      *)
(* (host and LGR may be the same grid) and give the arena after the call   *)
(* and `oob`, the indices at which host_grid->cells was addressed outside  *)
(* its size elements.                                                      *)
(***************************************************************************)
RECURSIVE InstallLoopEGRID(_, _, _, _, _, _)
InstallLoopEGRID(arena, host, lgr, hostnum, global_lgr_index, oob) ==
  IF global_lgr_index >= arena[lgr].size THEN [arena |-> arena, oob |-> oob]
  ELSE IF arena[lgr].cells[global_lgr_index].active
    THEN LET at == hostnum[global_lgr_index]
             a1 == IF at \in DOMAIN arena[host].cells
                     THEN [arena EXCEPT ![host].cells[at] = ecl_cell_install_lgr(@, lgr)]
                     ELSE arena
             a2 == [a1 EXCEPT ![lgr].cells[global_lgr_index].host_cell =
                                 hostnum[global_lgr_index] - 1]
         IN  InstallLoopEGRID(a2, host, lgr, hostnum, global_lgr_index + 1,
                              IF at \in DOMAIN arena[host].cells THEN oob ELSE oob \cup {at})
    ELSE InstallLoopEGRID(arena, host, lgr, hostnum, global_lgr_index + 1, oob)

ecl_grid_install_lgr_EGRID(arena, host, lgr, hostnum) ==
  LET done == InstallLoopEGRID(arena, host, lgr, hostnum, 0, {})
      a1   == [done.arena EXCEPT ![host].children =
                                   hash_insert_ref(@, done.arena[lgr].name, lgr)]
  IN  [arena |-> [a1 EXCEPT ![lgr].parent_grid = host], oob |-> done.oob]

RECURSIVE InstallLoopGRID(_, _, _, _, _)
InstallLoopGRID(arena, host, lgr, global_lgr_index, oob) ==
  IF global_lgr_index >= arena[lgr].size THEN [arena |-> arena, oob |-> oob]
  ELSE LET lgr_cell == arena[lgr].cells[global_lgr_index]
       IN  IF lgr_cell.active
             THEN IF lgr_cell.host_cell \in DOMAIN arena[host].cells
                    THEN InstallLoopGRID(
                           [arena EXCEPT ![host].cells[lgr_cell.host_cell] =
                                           ecl_cell_install_lgr(@, lgr)],
                           host, lgr, global_lgr_index + 1, oob)
                    ELSE InstallLoopGRID(arena, host, lgr, global_lgr_index + 1,
                                         oob \cup {lgr_cell.host_cell})
             ELSE InstallLoopGRID(arena, host, lgr, global_lgr_index + 1, oob)

ecl_grid_install_lgr_GRID(arena, host, lgr) ==
  InstallLoopGRID(arena, host, lgr, 0, {})

(***************************************************************************)
(* SpecAdd: a main grid, and LGR grids of any occurrence number handed to  *)
(* ecl_grid_add_lgr one after the other.                                   *)
(***************************************************************************)
NextHandle == Cardinality(DOMAIN grids)

NumAdded == Len(grids[0].LGR_list) - 1

InitAdd ==
  /\ pc = "built"
  /\ loader = "ADD"
  /\ grids = (0 :> ecl_grid_alloc_empty(0, NULL, 1, 1, 1, 0))
  /\ file = <<>>
  /\ hist = [adds |-> 0, before |-> grids[0]]
  /\ ret = NoCall

\* A blank LGR grid with occurrence number grid_nr is made, named and handed
\* to ecl_grid_add_lgr.
Call_add_lgr ==
  /\ pc = "built"
  /\ NumAdded < MaxAdd
  /\ \E grid_nr \in 0 .. MaxAdd + 1, name \in LgrNames :
       LET lgr      == NextHandle
           lgr_grid == [ecl_grid_alloc_empty(lgr, 0, 1, 1, 1, grid_nr) EXCEPT !.name = name]
           r        == ecl_grid_add_lgr(grids[0], lgr, lgr_grid)
       IN  /\ grids' = (lgr :> lgr_grid) @@ [grids EXCEPT ![0] = r.main]
           /\ hist' = [adds   |-> IF r.status = "ok" THEN hist.adds + 1 ELSE hist.adds,
                       before |-> grids[0]]
           /\ ret' = [op |-> "ecl_grid_add_lgr", args |-> <<0, lgr>>] @@ Res(r.status, 0)
           /\ pc' = IF r.status = "ok" THEN "returned" ELSE "aborted"
  /\ UNCHANGED <<loader, file>>

Call_get_num_lgr ==
  /\ pc = "built"
  /\ \E h \in DOMAIN grids :
       Return("ecl_grid_get_num_lgr", <<h>>, ecl_grid_get_num_lgr(grids[h]))

Call_iget_lgr ==
  /\ pc = "built"
  /\ \E h \in DOMAIN grids, lgr_nr \in -1 .. NumAdded :
       Return("ecl_grid_iget_lgr", <<h, lgr_nr>>, ecl_grid_iget_lgr(grids[h], lgr_nr))

Call_get_grid_nr ==
  /\ pc = "built"
  /\ \E h \in DOMAIN grids :
       Return("ecl_grid_get_grid_nr", <<h>>, ecl_grid_get_grid_nr(grids[h]))

\* n blanks.
Pad(n) == [x \in 1 .. n |-> " "]

\* The names looked up: the names LGRs carry and one no LGR carries, padded.
LookupNames ==
  {Pad(a) \o name \o Pad(b) : a \in 0 .. MaxPad, b \in 0 .. MaxPad,
                              name \in LgrNames \cup {<<"C">>}}

Call_get_lgr ==
  /\ pc = "built"
  /\ \E lgr_name \in LookupNames :
       Return("ecl_grid_get_lgr", <<0, lgr_name>>, ecl_grid_get_lgr(grids[0], lgr_name))

Call_has_lgr ==
  /\ pc = "built"
  /\ \E lgr_name \in LookupNames :
       Return("ecl_grid_has_lgr", <<0, lgr_name>>, ecl_grid_has_lgr(grids[0], lgr_name))

NextAdd ==
  \/ Call_add_lgr
  \/ Call_get_lgr
  \/ Call_has_lgr
  \/ Call_get_num_lgr
  \/ Call_iget_lgr
  \/ Call_get_grid_nr
  \/ Resume

SpecAdd == InitAdd /\ [][NextAdd]_vars

\* C9 (as claimed): ecl_grid_add_lgr aborts, leaving the LGR list and the
\* name table as they were, when the grid's grid_nr differs from the number
\* of LGRs registered so far, and registers the grid only when they are equal.
C9_AddChecksLgrCount ==
  ret.op = "ecl_grid_add_lgr" =>
    LET lgr_grid   == grids[ret.args[2]]
        registered == Len(hist.before.LGR_list) - 1
    IN  /\ lgr_grid.grid_nr # registered =>
             /\ ret.status = "abort"
             /\ grids[0].LGR_list = hist.before.LGR_list
             /\ grids[0].LGR_hash = hist.before.LGR_hash
        /\ ret.status = "ok" => lgr_grid.grid_nr = registered

\* C9 (amended): ecl_grid_add_lgr aborts, leaving the LGR list and the name
\* table as they were, when the grid's grid_nr differs from the length of the
\* main grid's LGR list, which counts the main grid's own entry at position
\* 0 (the number of LGRs registered so far plus one); it registers the grid,
\* at the end of the list and under its name, exactly when they are equal.
C9_AddChecksListLength ==
  ret.op = "ecl_grid_add_lgr" =>
    LET lgr        == ret.args[2]
        lgr_grid   == grids[lgr]
        registered == Len(hist.before.LGR_list) - 1
    IN  /\ lgr_grid.grid_nr # registered + 1 =>
             /\ ret.status = "abort"
             /\ grids[0].LGR_list = hist.before.LGR_list
             /\ grids[0].LGR_hash = hist.before.LGR_hash
        /\ lgr_grid.grid_nr = registered + 1 =>
             /\ ret.status = "ok"
             /\ grids[0].LGR_list = Append(hist.before.LGR_list, [ref |-> lgr, owned |-> TRUE])
             /\ grids[0].LGR_hash[lgr_grid.name] = lgr

\* C9 witnesses: a second LGR with grid_nr = 2 was registered; an LGR whose
\* grid_nr is the number of LGRs registered so far (1) was refused.
C9_Witness ==
  /\ ret.op = "ecl_grid_add_lgr"
  /\ ret.status = "ok"
  /\ grids[ret.args[2]].grid_nr = 2
  /\ Len(grids[0].LGR_list) = 3

C9_WitnessAbort ==
  /\ ret.op = "ecl_grid_add_lgr"
  /\ pc = "aborted"
  /\ Len(hist.before.LGR_list) = 2
  /\ grids[ret.args[2]].grid_nr = 1

\* C10: the grid at position n of the main grid's LGR list has grid_nr = n,
\* the main grid itself at position 0; ecl_grid_iget_lgr(main, n) returns the
\* LGR with grid_nr = n + 1 for every n in [0, ecl_grid_get_num_lgr); and
\* ecl_grid_get_num_lgr is the number of successful ecl_grid_add_lgr calls.
C10_ListPositionIsGridNr ==
  LET main == grids[0]
  IN  /\ main.LGR_list[1].ref = 0
      /\ \A n \in 0 .. Len(main.LGR_list) - 1 :
           ecl_grid_get_grid_nr(grids[vector_iget(main.LGR_list, n).ref]).val = n
      /\ ecl_grid_get_num_lgr(main).status = "ok"
      /\ ecl_grid_get_num_lgr(main).val = hist.adds
      /\ \A n \in 0 .. ecl_grid_get_num_lgr(main).val - 1 :
           LET r == ecl_grid_iget_lgr(main, n)
           IN  r.status = "ok" /\ grids[r.val].grid_nr = n + 1
      /\ (ret.op = "ecl_grid_iget_lgr" /\ ret.args[1] = 0
            /\ ret.args[2] \in 0 .. hist.adds - 1) =>
           (ret.status = "ok" /\ grids[ret.val].grid_nr = ret.args[2] + 1)
      /\ (ret.op = "ecl_grid_get_num_lgr" /\ ret.args[1] = 0) =>
           (ret.status = "ok" /\ ret.val = hist.adds)

\* C10 witness: after three successful adds ecl_grid_iget_lgr(main, 2) has
\* returned the grid with grid_nr = 3.
C10_Witness ==
  /\ pc = "returned"
  /\ hist.adds = 3
  /\ ret.op = "ecl_grid_iget_lgr"
  /\ ret.args = <<0, 2>>
  /\ grids[ret.val].grid_nr = 3

(***************************************************************************)
(* SpecLgr: ecl_grid_alloc_EGRID and ecl_grid_alloc_GRID reading a file    *)
(* that holds a main grid and LGR sections.  One action builds the main    *)
(* grid, one runs one turn of the loop over the LGR sections, one ends the *)
(* load.  The keywords of a section are drawn when the loop reads them.    *)
(* Grids are one cell wide and high here: nx cells in a row.               *)
(*                                                                         *)
(* hist.host[l] is the host grid the loop found for LGR l; hist.oob says   *)
(* whether a cell array was addressed outside its elements on the way;     *)
(* hist.freed[h] counts the calls of free() on grid h; hist.stray are the  *)
(* indices outside its elements at which the cell array of a host grid was *)
(* addressed.                                                              *)
(***************************************************************************)
grid_file == <<"F">>

RECURSIVE LgrCellsFrom(_, _)
LgrCellsFrom(arena, h) ==
  IF h \notin DOMAIN arena THEN 0 ELSE arena[h].size + LgrCellsFrom(arena, h + 1)

\* The cells of the LGRs read so far.
LgrCells == LgrCellsFrom(grids, 1)

InitLgr ==
  /\ pc = "start"
  /\ loader = "none"
  /\ grids = <<>>
  /\ file = <<>>
  /\ hist = [host |-> <<>>, oob |-> FALSE, freed |-> <<>>, stray |-> {}]
  /\ ret = NoCall

\* The cell array was addressed outside its elements: the process faults, or
\* goes on with the grids untouched by the stray access.
StrayAccess(arena, oob) ==
  \/ /\ oob = {}
     /\ pc' = "loading"
     /\ grids' = arena
  \/ /\ oob # {}
     /\ pc' = "loading"
     /\ grids' = arena
  \/ /\ oob # {}
     /\ pc' = "segv"
     /\ grids' = arena

ecl_grid_alloc_EGRID_main ==
  /\ pc = "start"
  /\ \E nx \in 1 .. MaxHostCells :
       \E actnum \in [0 .. nx - 1 -> {0, 1}] :
         grids' = (0 :> ecl_grid_alloc_GRDECL_data__(0, NULL, nx, 1, 1,
                       ZcornOf(<<nx, 1, 1>>, RegularGeometry),
                       CoordOf(<<nx, 1, 1>>, RegularGeometry), actnum, <<>>, 0))
  /\ pc' = "loading"
  /\ loader' = "EGRID"
  /\ file' = [type |-> "EGRID", num_coords |-> 0, cell_offset |-> 0, lgr_records |-> FALSE]
  /\ UNCHANGED <<hist, ret>>

ecl_grid_alloc_EGRID__(self, global_grid, nx, actnum, lgrname_kw, parent_kw, grid_nr) ==
  LET ecl_grid == ecl_grid_alloc_GRDECL_data__(self, global_grid, nx, 1, 1,
                    ZcornOf(<<nx, 1, 1>>, RegularGeometry),
                    CoordOf(<<nx, 1, 1>>, RegularGeometry), actnum, <<>>, grid_nr)
  IN  IF grid_nr > 0
        THEN ecl_grid_set_lgr_name_EGRID(ecl_grid, lgrname_kw, parent_kw)
        ELSE ecl_grid

\* One turn of the loop of ecl_grid_alloc_EGRID.
ecl_grid_alloc_EGRID_lgr ==
  /\ pc = "loading"
  /\ file.type = "EGRID"
  /\ NextHandle - 1 < MaxLgr
  /\ \E nx \in 1 .. MaxLgrCells - LgrCells :
       \E actnum \in [0 .. nx - 1 -> {0, 1}], lgrname_kw \in RawNames,
          parent_kw \in RawParentsEGRID :
         \E lgr_grid \in {ecl_grid_alloc_EGRID__(NextHandle, 0, nx, actnum, lgrname_kw,
                                                 parent_kw, NextHandle)} :
         LET grid_nr  == NextHandle
             lgr      == NextHandle
             added    == ecl_grid_add_lgr(grids[0], lgr, lgr_grid)
             arena    == (lgr :> lgr_grid) @@ [grids EXCEPT ![0] = added.main]
             host     == IF lgr_grid.parent_name = NULLSTR
                           THEN Res("ok", 0)
                           ELSE ecl_grid_get_lgr(arena[0], lgr_grid.parent_name)
         IN  IF added.status = "abort" \/ host.status = "abort"
               THEN /\ pc' = "aborted"
                    /\ grids' = arena
                    /\ hist' = hist
               ELSE \E hostnum \in [0 .. nx - 1 -> 1 .. arena[host.val].size] :
                      LET done == ecl_grid_install_lgr_EGRID(arena, host.val, lgr, hostnum)
                      IN  /\ StrayAccess(done.arena, done.oob)
                          /\ hist' = [hist EXCEPT !.host  = (lgr :> host.val) @@ @,
                                                   !.oob   = @ \/ done.oob # {},
                                                   !.stray = @ \cup done.oob]
  /\ UNCHANGED <<loader, file, ret>>

ecl_grid_alloc_EGRID_done ==
  /\ pc = "loading"
  /\ file.type = "EGRID"
  /\ grids' = [grids EXCEPT ![0].name = grid_file]
  /\ file' = <<>>
  /\ pc' = "built"
  /\ UNCHANGED <<loader, hist, ret>>

\* The COORDS record of cell nr (from 1) of an LGR section.
LgrCoordsRecord(nr, code, host) ==
  <<nr, 1, 1, nr, code, host, 0>>

\* All COORDS records of the file follow each other; the loop of
\* ecl_grid_alloc_GRID__ reads num_coords of them, the number in the whole
\* file, from cell_offset on.  lgr_records: the records of the cells of an LGR
\* section are among them.
ecl_grid_alloc_GRID_main ==
  /\ pc = "start"
  /\ \E nx \in 1 .. MaxHostCells, coords_size \in {4, 5, 7}, lgr_nx \in 0 .. MaxLgrCells :
       \E recs \in [0 .. nx - 1 -> {0, 1, NULL}],
          lgr_recs \in [1 .. lgr_nx -> {0, 1} \X (1 .. nx)] :
         LET records == CoordsRecords(<<nx, 1, 1>>, recs, coords_size, 0)
                          \o [nr \in 1 .. lgr_nx |->
                                LgrCoordsRecord(nr, lgr_recs[nr][1], lgr_recs[nr][2])]
             corners == CornersRecords(<<nx, 1, 1>>, recs, RegularGeometry, 0)
                          \o [nr \in 1 .. lgr_nx |->
                                CornersRecord(<<lgr_nx, 1, 1>>, nr - 1, RegularGeometry)]
             oob     == {n \in 1 .. Len(records) : records[n][1] > nx}
         IN  /\ StrayAccess(0 :> ecl_grid_alloc_GRID__(0, NULL, nx, 1, 1, records, corners,
                                                       <<>>, 0), oob)
             /\ file' = [type |-> "GRID", num_coords |-> Len(records),
                         cell_offset |-> Len(records), lgr_records |-> lgr_nx > 0]
             /\ hist' = [hist EXCEPT !.oob = oob # {}]
  /\ loader' = "GRID"
  /\ UNCHANGED ret

\* One turn of the loop of ecl_grid_alloc_GRID.  With num_coords > 0 the
\* first record the LGR asks for, number cell_offset, is not in the file:
\* ecl_file_iget_named_kw fails.
ecl_grid_alloc_GRID_lgr ==
  /\ pc = "loading"
  /\ file.type = "GRID"
  /\ NextHandle - 1 < MaxLgr
  /\ \E nx \in 1 .. MaxLgrCells - LgrCells :
       \E lgr_kw0 \in RawNames, lgr_kw1 \in RawParentsGRID :
         IF file.num_coords > 0
           THEN /\ pc' = "aborted"
                /\ UNCHANGED <<grids, file, hist>>
           ELSE LET grid_nr  == NextHandle
                    lgr      == NextHandle
                    lgr_grid == ecl_grid_set_lgr_name_GRID(
                                  ecl_grid_alloc_GRID__(lgr, 0, nx, 1, 1, <<>>, <<>>, <<>>, grid_nr),
                                  lgr_kw0, lgr_kw1)
                    added    == ecl_grid_add_lgr(grids[0], lgr, lgr_grid)
                    arena    == (lgr :> lgr_grid) @@ [grids EXCEPT ![0] = added.main]
                    host     == IF lgr_grid.parent_name = NULLSTR
                                  THEN Res("ok", 0)
                                  ELSE ecl_grid_get_lgr(arena[0], lgr_grid.parent_name)
                IN  IF added.status = "abort" \/ host.status = "abort"
                      THEN /\ pc' = "aborted"
                           /\ grids' = arena
                           /\ UNCHANGED <<file, hist>>
                      ELSE LET done == ecl_grid_install_lgr_GRID(arena, host.val, lgr)
                           IN  /\ StrayAccess(done.arena, done.oob)
                               /\ file' = [file EXCEPT !.cell_offset = @ + file.num_coords]
                               /\ hist' = [hist EXCEPT !.host  = (lgr :> host.val) @@ @,
                                                        !.oob   = @ \/ done.oob # {},
                                                        !.stray = @ \cup done.oob]
  /\ UNCHANGED <<loader, ret>>

ecl_grid_alloc_GRID_done ==
  /\ pc = "loading"
  /\ file.type = "GRID"
  /\ ~ (file.lgr_records /\ NextHandle = 1)
  /\ grids' = [grids EXCEPT ![0].name = grid_file]
  /\ file' = <<>>
  /\ pc' = "built"
  /\ UNCHANGED <<loader, hist, ret>>

(***************************************************************************)
(* Destruction.  `freed` counts, for every grid, the calls of free() on    *)
(* it.  vector_free runs the destructor of the entries appended with one   *)
(* (vector_append_owned_ref); hash_free of a table filled by               *)
(* hash_insert_ref and ecl_cell_free leave the grids they refer to alone.  *)
(***************************************************************************)
RECURSIVE ecl_grid_free(_, _, _)
RECURSIVE vector_free(_, _, _, _)

\* A slip in ecl_grid_free: the LGR list is dropped without running the
\* destructors of its entries.
ecl_grid_free_shallow(arena, grid, freed) ==
  [freed EXCEPT ![grid] = @ + 1]

vector_free(arena, vector, index, freed) ==
  IF index >= vector_get_size(vector) THEN freed
  ELSE LET node == vector_iget(vector, index)
       IN  vector_free(arena, vector, index + 1,
                       IF node.owned THEN ecl_grid_free(arena, node.ref, freed) ELSE freed)

ecl_grid_free(arena, grid, freed) ==
  LET lgrs == IF arena[grid].grid_nr = 0
                THEN vector_free(arena, arena[grid].LGR_list, 0, freed)
                ELSE freed
  IN  [lgrs EXCEPT ![grid] = @ + 1]

\* ecl_grid_free on the main grid of the loaded hierarchy.
Call_free ==
  /\ pc = "built"
  /\ hist' = [hist EXCEPT !.freed = ecl_grid_free(grids, 0, [h \in DOMAIN grids |-> 0])]
  /\ ret' = [op |-> "ecl_grid_free", args |-> <<0>>] @@ Res("ok", 0)
  /\ pc' = "freed"
  /\ UNCHANGED <<loader, grids, file>>

NextLgr ==
  \/ Call_free
  \/ ecl_grid_alloc_EGRID_main
  \/ ecl_grid_alloc_EGRID_lgr
  \/ ecl_grid_alloc_EGRID_done
  \/ ecl_grid_alloc_GRID_main
  \/ ecl_grid_alloc_GRID_lgr
  \/ ecl_grid_alloc_GRID_done

SpecLgr == InitLgr /\ [][NextLgr]_vars

\* The LGRs of the hierarchy.
Lgrs == DOMAIN grids \ {0}

\* C3: in every built grid, main grid or LGR, by either builder,
\* total_active is the number of cells with active = TRUE and the number of
\* elements of inv_index_map, and index_map has its values in
\* {-1} \cup [0, total_active), each value of [0, total_active) exactly once.
C3_ActiveCount ==
  \A h \in DOMAIN grids :
    LET g == grids[h]
    IN  /\ g.total_active = Cardinality(ActiveCells(g))
        /\ DOMAIN g.inv_index_map = 0 .. g.total_active - 1
        /\ DOMAIN g.index_map = 0 .. g.size - 1
        /\ \A c \in DOMAIN g.index_map :
             g.index_map[c] \in {-1} \cup (0 .. g.total_active - 1)
        /\ \A a \in 0 .. g.total_active - 1 :
             Cardinality({c \in DOMAIN g.index_map : g.index_map[c] = a}) = 1

\* C3 witnesses: an LGR of an EGRID file with an active and an inactive
\* cell; a main grid of a GRID file with an active and an inactive cell.
C3_Witness ==
  /\ loader = "EGRID"
  /\ \E l \in Lgrs : grids[l].size = 2 /\ grids[l].total_active = 1

C3_WitnessGRID ==
  /\ loader = "GRID"
  /\ pc = "built"
  /\ grids[0].size = 2
  /\ grids[0].total_active = 1

\* C8 (as claimed): once the hierarchy is loaded, every active cell of an
\* LGR L has a host_cell h at which the host grid's cell has lgr = L, and
\* every host cell with lgr = L is the host_cell of an active cell of L.
\* Stated of the loads in which every access stayed inside the cell arrays.
C8_HostLinksConsistent ==
  (pc = "built" /\ ~ hist.oob) =>
    \A l \in Lgrs :
      LET L == grids[l]
          H == grids[hist.host[l]]
      IN  /\ \A c \in ActiveCells(L) :
               /\ L.cells[c].host_cell \in DOMAIN H.cells
               /\ H.cells[L.cells[c].host_cell].lgr = l
          /\ \A h \in DOMAIN H.cells :
               H.cells[h].lgr = l =>
                 \E c \in ActiveCells(L) : L.cells[c].host_cell = h

(***************************************************************************)
(* Lookup of an LGR by name, under SpecAdd.                                *)
(***************************************************************************)
\* The LGRs registered with the main grid.
Registered == {grids[0].LGR_list[n].ref : n \in 2 .. Len(grids[0].LGR_list)}

\* The LGR the name table holds under `name`: the last one registered so.
LastNamed(name) ==
  CHOOSE l \in Registered :
    /\ grids[l].name = name
    /\ \A m \in Registered : grids[m].name = name => m <= l

\* C11 (as claimed): ecl_grid_get_lgr on the main grid never aborts: for a
\* name under which no LGR is registered it returns a not-found result.
C11_LookupIsSoft ==
  (ret.op = "ecl_grid_get_lgr" /\ ret.args[1] = 0) => ret.status = "ok"

\* C11 (amended): ecl_grid_get_lgr(main, name) aborts when no LGR is
\* registered under the name stripped of its leading and trailing blanks,
\* and otherwise returns the LGR last registered under the stripped name,
\* whatever the padding; ecl_grid_has_lgr never aborts on the main grid and
\* returns true exactly when ecl_grid_get_lgr finds a grid.
C11_LookupFailsHard ==
  /\ \A lgr_name \in LookupNames :
       LET found == \E l \in Registered : grids[l].name = util_alloc_strip_copy(lgr_name)
           got   == ecl_grid_get_lgr(grids[0], lgr_name)
           has   == ecl_grid_has_lgr(grids[0], lgr_name)
       IN  /\ has.status = "ok"
           /\ has.val = 1 <=> found
           /\ has.val = 1 <=> got.status = "ok"
           /\ ~found => got.status = "abort"
           /\ found => got.val = LastNamed(util_alloc_strip_copy(lgr_name))
  /\ (ret.op = "ecl_grid_get_lgr" /\ ret.args[1] = 0) =>
       IF \E l \in Registered : grids[l].name = util_alloc_strip_copy(ret.args[2])
         THEN ret.status = "ok" /\ ret.val = LastNamed(util_alloc_strip_copy(ret.args[2]))
         ELSE ret.status = "abort" /\ pc = "aborted"

\* C11 witness: the LGR named "A" was looked up as " A " and returned.
C11_Witness ==
  /\ ret.op = "ecl_grid_get_lgr"
  /\ ret.args[2] = <<" ", "A", " ">>
  /\ ret.status = "ok"
  /\ grids[ret.val].name = <<"A">>
  /\ ret.val \in Registered

\* C11 witness: the lookup of a name no LGR carries has aborted.
C11_WitnessAbort ==
  /\ ret.op = "ecl_grid_get_lgr"
  /\ ret.args[2] = <<"C">>
  /\ pc = "aborted"

(***************************************************************************)
(* The parent relation of a loaded hierarchy, under SpecLgr.               *)
(***************************************************************************)
\* C12 (as claimed): once a hierarchy is loaded by either loader, the main
\* grid has no parent grid and every LGR has one: the LGR registered under
\* its parent name when it has a parent name, and the main grid otherwise.
C12_OneOfMainOrParent ==
  pc = "built" =>
    /\ grids[0].grid_nr = 0
    /\ grids[0].parent_grid = NULL
    /\ \A l \in Lgrs :
         /\ grids[l].grid_nr # 0
         /\ grids[l].parent_grid # NULL
         /\ grids[l].parent_grid =
              IF grids[l].parent_name = NULLSTR THEN 0 ELSE hist.host[l]

\* C13: ecl_grid_free on the main grid frees the main grid exactly once and
\* every registered LGR exactly once, whatever its host: the self entry at
\* position 0 of the LGR list frees nothing, and no grid is freed through a
\* children table, a parent or global link or a cell's lgr reference.
C13_FreeOwnedByMain ==
  pc = "freed" =>
    /\ DOMAIN hist.freed = DOMAIN grids
    /\ \A h \in DOMAIN grids : hist.freed[h] = 1

\* C13 witness: a hierarchy was freed in which an LGR is hosted by another
\* LGR, which holds it in its children table, and in which a cell of the
\* main grid refers to an LGR.
C13_Witness ==
  /\ pc = "freed"
  /\ ~ hist.oob
  /\ \E l \in Lgrs :
       /\ hist.host[l] \notin {0, l}
       /\ grids[l].name \in DOMAIN grids[hist.host[l]].children
       /\ grids[l].global_grid = 0
       /\ hist.freed[l] = 1
  /\ \E m \in Lgrs, c \in DOMAIN grids[0].cells : grids[0].cells[c].lgr = m

(***************************************************************************)
(* SpecBuild: one grid is built by either builder, and hist keeps what the *)
(* builder was given: the ACTNUM codes, or the activity code of the COORDS *)
(* record of every cell (NULL: the cell has no record) and the number of   *)
(* integers of a record.                                                   *)
(***************************************************************************)
InitBuild ==
  /\ pc = "start"
  /\ loader = "none"
  /\ grids = <<>>
  /\ file = <<>>
  /\ hist = <<>>
  /\ ret = NoCall

Build_GRDECL_data ==
  /\ pc = "start"
  /\ \E s \in Shapes :
       \E actnum \in [CellsOf(s) -> ActCodes] :
         /\ grids' = (0 :> ecl_grid_alloc_GRDECL_data__(0, NULL, s[1], s[2], s[3],
                       ZcornOf(s, RegularGeometry), CoordOf(s, RegularGeometry),
                       actnum, <<>>, 0))
         /\ hist' = [actnum |-> actnum]
  /\ pc' = "built"
  /\ loader' = "EGRID"
  /\ UNCHANGED <<file, ret>>

Build_GRID ==
  /\ pc = "start"
  /\ \E s \in Shapes :
       \E coords_size \in {4, 5, 7} :
         \E recs \in [CellsOf(s) -> CoordsCodes \cup {NULL}] :
           /\ grids' = (0 :> ecl_grid_alloc_GRID__(0, NULL, s[1], s[2], s[3],
                                                    CoordsRecords(s, recs, coords_size, 0),
                                                    CornersRecords(s, recs, RegularGeometry, 0),
                                                    <<>>, 0))
           /\ hist' = [recs |-> recs, coords_size |-> coords_size]
  /\ pc' = "built"
  /\ loader' = "GRID"
  /\ UNCHANGED <<file, ret>>

NextBuild ==
  \/ Build_GRDECL_data
  \/ Build_GRID

SpecBuild == InitBuild /\ [][NextBuild]_vars

\* C17 (as claimed): by either builder a cell is active exactly when its
\* activity code is strictly positive: ACTNUM at its global index, or the
\* code on its COORDS record, a record without a code counting as active.
C17_ActiveIffPositive ==
  pc = "built" =>
    \A c \in DOMAIN G.cells :
      G.cells[c].active <=>
        IF loader = "EGRID" THEN hist.actnum[c] > 0
        ELSE /\ hist.recs[c] # NULL
             /\ (hist.coords_size = 4 \/ hist.recs[c] > 0)

\* C17 (amended): by the column-major builder a cell is active exactly when
\* ACTNUM at its global index is strictly positive (2 counts, 0 and negative
\* codes do not); by the explicit-cell builder a cell is active exactly when
\* it has a COORDS record and the record either has no activity code (4
\* integers) or has the activity code 1: the codes 0 and 2 make it inactive.
C17_ActiveByCode ==
  pc = "built" =>
    \A c \in DOMAIN G.cells :
      G.cells[c].active <=>
        IF loader = "EGRID" THEN hist.actnum[c] > 0
        ELSE /\ hist.recs[c] # NULL
             /\ (hist.coords_size = 4 \/ hist.recs[c] = 1)

\* C17 witness: the column-major builder made a cell with ACTNUM 2 active.
C17_Witness ==
  /\ pc = "built"
  /\ loader = "EGRID"
  /\ \E c \in DOMAIN G.cells : hist.actnum[c] = 2 /\ G.cells[c].active

\* C17 witness: the explicit-cell builder left a cell with code 2 inactive.
C17_WitnessGRID ==
  /\ pc = "built"
  /\ loader = "GRID"
  /\ hist.coords_size = 5
  /\ \E c \in DOMAIN G.cells : hist.recs[c] = 2 /\ ~ G.cells[c].active

(***************************************************************************)
(* One grid with its geometry, built by either builder, and one geometric  *)
(* query put to it.  Every cell is active and, in a GRID file, has its     *)
(* COORDS and CORNERS record, so that no corner is left unset.             *)
(***************************************************************************)
MaxGeoCells == 4   \* a grid with geometry is a row of nx columns, nz layers, nx*nz <= MaxGeoCells
MaxFlat == 1       \* at most MaxFlat of its cells have no thickness

HalfEdge == CellEdge \div 2

GeoShapes ==
  {s \in (1 .. MaxGeoCells) \X {1} \X (1 .. MaxDim) : s[1] * s[3] <= MaxGeoCells}

\* Where the lattice of the input starts.
GeoOrigins == {<<0, 0>>, <<0, CellEdge>>, <<CellEdge, CellEdge>>}

\* MAPAXES with the axes along x and y and the origin in (ox, oy).
MapaxesAt(ox, oy) ==
  <<ox, oy + CellEdge, ox, oy, ox + CellEdge, oy>>

GeoMapaxes == {<<>>, MapaxesAt(CellEdge, CellEdge), MapaxesAt(-CellEdge, -CellEdge)}

FlatSets(s) ==
  {f \in SUBSET CellsOf(s) : Cardinality(f) <= MaxFlat}

\* The geometries of a grid of shape s that starts in `origin`; the grid
\* away from both axes is given with z an elevation as well.
Geometries(s, origin) ==
  {Geometry(origin[1], origin[2], flat) : flat \in FlatSets(s)}
    \cup (IF origin = <<CellEdge, CellEdge>>
            THEN {Elevation(Geometry(origin[1], origin[2], {}))}
            ELSE {})

InitGeo ==
  /\ pc = "start"
  /\ loader = "none"
  /\ grids = <<>>
  /\ file = <<>>
  /\ hist = <<>>
  /\ ret = NoCall

Geo_alloc_GRDECL_data ==
  /\ pc = "start"
  /\ \E s \in GeoShapes, origin \in GeoOrigins, mapaxes \in GeoMapaxes :
       \E geo \in Geometries(s, origin) :
         LET zcorn == ZcornOf(s, geo)
         IN  /\ grids' = (0 :> ecl_grid_alloc_GRDECL_data__(0, NULL, s[1], s[2], s[3],
                                 zcorn, CoordOf(s, geo),
                                 [c \in CellsOf(s) |-> 1], mapaxes, 0))
             /\ hist' = [geo |-> geo, mapaxes |-> mapaxes]
  /\ pc' = "built"
  /\ loader' = "EGRID"
  /\ UNCHANGED <<file, ret>>

Geo_alloc_GRID ==
  /\ pc = "start"
  /\ \E s \in GeoShapes, origin \in GeoOrigins, mapaxes \in GeoMapaxes :
       \E geo \in Geometries(s, origin) :
         LET recs == [c \in CellsOf(s) |-> 1]
         IN  /\ grids' = (0 :> ecl_grid_alloc_GRID__(0, NULL, s[1], s[2], s[3],
                                 CoordsRecords(s, recs, 5, 0),
                                 CornersRecords(s, recs, geo, 0), mapaxes, 0))
             /\ hist' = [geo |-> geo, mapaxes |-> mapaxes]
  /\ pc' = "built"
  /\ loader' = "GRID"
  /\ UNCHANGED <<file, ret>>

\* The points the queries are made with: on the half-edge lattice through
\* the corners and centres of the cells, and one step outside of it.
CornerSet(g) ==
  {g.cells[c].corner_list[n] : c \in DOMAIN g.cells, n \in 0 .. 7}

Steps(lo, hi) ==
  {lo + HalfEdge * m : m \in 0 .. ((hi - lo) \div HalfEdge)}

QueryX == Steps(Min({q.x : q \in CornerSet(G)}) - HalfEdge, Max({q.x : q \in CornerSet(G)}))
QueryY == Steps(Min({q.y : q \in CornerSet(G)}), Min({q.y : q \in CornerSet(G)}) + HalfEdge)
QueryZ == Steps(Min({q.z : q \in CornerSet(G)}), Max({q.z : q \in CornerSet(G)}))

\* A call that only reads the grid.
ReturnGeo(op, args, r) ==
  /\ ret' = [op |-> op, args |-> args] @@ r
  /\ pc' = IF r.status = "abort" THEN "aborted" ELSE "returned"
  /\ UNCHANGED <<loader, grids, file, hist>>

Call_cell_contains_xyz1 ==
  /\ pc = "built"
  /\ \E global_index \in DOMAIN G.cells, x \in QueryX, y \in QueryY, z \in QueryZ :
       ReturnGeo("cell_contains_xyz1", <<global_index, x, y, z>>,
                 ecl_grid_cell_contains_xyz1(G, global_index, x, y, z))

Call_cell_contains_xyz3 ==
  /\ pc = "built"
  /\ \E i \in 0 .. G.nx - 1, k \in 0 .. G.nz - 1, x \in QueryX, y \in QueryY, z \in QueryZ :
       ReturnGeo("cell_contains_xyz3", <<ecl_grid_get_global_index__(G, i, 0, k), x, y, z>>,
                 ecl_grid_cell_contains_xyz3(G, i, 0, k, x, y, z))

Call_get_global_index_from_xy ==
  /\ pc = "built"
  /\ \E k \in 0 .. G.nz - 1, lower_layer \in BOOLEAN, x \in QueryX, y \in QueryY :
       ReturnGeo("get_global_index_from_xy", <<k, lower_layer, x, y>>,
                 ecl_grid_get_global_index_from_xy(G, k, lower_layer, x, y))

\* The search writes the visited array of the grid.
Call_get_global_index_from_xyz ==
  /\ pc = "built"
  /\ \E x \in QueryX, y \in QueryY, z \in QueryZ, start_index \in 0 .. G.size - 1 :
       \E sr \in {ecl_grid_get_global_index_from_xyz(G, x, y, z, start_index)} :
         /\ grids' = [grids EXCEPT ![0] = sr.grid]
         /\ ret' = [op |-> "get_global_index_from_xyz", args |-> <<x, y, z, start_index>>,
                    status |-> IF sr.status = "abort" THEN "abort" ELSE "ok",
                    val |-> sr.val, tested |-> sr.tested]
         /\ pc' = IF sr.status = "abort" THEN "aborted" ELSE "returned"
  /\ UNCHANGED <<loader, file, hist>>

GeoOps == {"cell_volume1", "xyz1", "top1", "bottom1", "cell_thickness1", "ijk1"}

Call_geometry ==
  /\ pc = "built"
  /\ \E op \in GeoOps, global_index \in DOMAIN G.cells :
       ReturnGeo(op, <<global_index>>,
                 CASE op = "cell_volume1"    -> ecl_grid_get_cell_volume1(G, global_index)
                   [] op = "xyz1"            -> ecl_grid_get_xyz1(G, global_index)
                   [] op = "top1"            -> ecl_grid_get_top1(G, global_index)
                   [] op = "bottom1"         -> ecl_grid_get_bottom1(G, global_index)
                   [] op = "cell_thickness1" -> ecl_grid_get_cell_thickness1(G, global_index)
                   [] OTHER -> [Res("ok", 0) EXCEPT
                                  !.ijk = ecl_grid_get_ijk1(G, global_index)])

NextGeo ==
  \/ Geo_alloc_GRDECL_data
  \/ Geo_alloc_GRID
  \/ Call_cell_contains_xyz1
  \/ Call_cell_contains_xyz3
  \/ Call_get_global_index_from_xy
  \/ Call_get_global_index_from_xyz
  \/ Call_geometry

SpecGeo == InitGeo /\ [][NextGeo]_vars

\* The cell would contain the point if it were not tainted.
BoxHolds(cell, p) ==
  ecl_cell_contains_point([cell EXCEPT !.tainted_geometry = FALSE], p) = "true"

Tainted(g) ==
  {c \in DOMAIN g.cells : g.cells[c].tainted_geometry}

(***************************************************************************)
(* C14: a tainted cell never tests as containing a point.  For every       *)
(* tainted cell of a built grid and every query point, its own centre      *)
(* among them, ecl_grid_cell_contains_xyz1 and ecl_grid_cell_contains_xyz3 *)
(* return false and ecl_cell_layer_contains_xy returns false for both      *)
(* layers; and the cell that ecl_grid_get_global_index_from_xyz or         *)
(* ecl_grid_get_global_index_from_xy returned is never a tainted one.      *)
(***************************************************************************)
C14_TaintedNeverContains ==
  /\ pc = "built" =>
       \A c \in Tainted(G) :
         /\ \A x \in QueryX \cup {G.cells[c].center.x}, y \in QueryY \cup {G.cells[c].center.y},
               z \in QueryZ \cup {G.cells[c].center.z} :
              LET ijk == ecl_grid_get_ijk1(G, c)
                  r1  == ecl_grid_cell_contains_xyz1(G, c, x, y, z)
                  r3  == ecl_grid_cell_contains_xyz3(G, ijk[1], ijk[2], ijk[3], x, y, z)
              IN  /\ r1.status = "ok" /\ r1.val = 0
                  /\ r3.status = "ok" /\ r3.val = 0
         /\ \A x \in QueryX \cup {G.cells[c].center.x}, y \in QueryY \cup {G.cells[c].center.y},
               lower_layer \in BOOLEAN :
              ~ ecl_cell_layer_contains_xy(G.cells[c], lower_layer, x, y)
  /\ (/\ pc \in {"returned", "aborted"}
      /\ ret.op \in {"cell_contains_xyz1", "cell_contains_xyz3"}
      /\ ret.args[1] \in Tainted(G))
       => ret.status = "ok" /\ ret.val = 0
  /\ (/\ pc \in {"returned", "aborted"}
      /\ ret.op \in {"get_global_index_from_xyz", "get_global_index_from_xy"})
       => ret.val \notin Tainted(G)

\* The search was asked for the centre of a tainted cell, whose corners do
\* enclose it, and did not return that cell.
C14_Witness ==
  /\ pc = "returned"
  /\ ret.op = "get_global_index_from_xyz"
  /\ \E c \in Tainted(G) :
       /\ G.cells[c].center = point_set(ret.args[1], ret.args[2], ret.args[3])
       /\ BoxHolds(G.cells[c], G.cells[c].center)
       /\ ret.args[4] = c
       /\ ret.val # c

\* The grid with the taint mark of cell c taken away.
Untainted(g, c) ==
  [g EXCEPT !.cells[c].tainted_geometry = FALSE]

\* What the geometric query `op` gives for cell c of grid g.
GeometryOf(g, op, c) ==
  CASE op = "cell_volume1"    -> ecl_grid_get_cell_volume1(g, c)
    [] op = "xyz1"            -> ecl_grid_get_xyz1(g, c)
    [] op = "top1"            -> ecl_grid_get_top1(g, c)
    [] op = "bottom1"         -> ecl_grid_get_bottom1(g, c)
    [] OTHER                  -> ecl_grid_get_cell_thickness1(g, c)

(***************************************************************************)
(* C15: a tainted cell is excluded from every geometric query.  The volume *)
(* query and the positional queries (centre, top, bottom, thickness) on a  *)
(* tainted cell do not return the geometry computed from its corners, that *)
(* is what they would return for the same cell without the taint mark,     *)
(* while the index conversion of the cell still gives its (i,j,k).         *)
(***************************************************************************)
C15_TaintedExcludedFromGeometry ==
  /\ (/\ pc = "returned"
      /\ ret.op \in GeoOps \ {"ijk1"}
      /\ ret.args[1] \in Tainted(G))
       => LET twin == GeometryOf(Untainted(G, ret.args[1]), ret.op, ret.args[1])
          IN  ~ (ret.val = twin.val /\ ret.xyz = twin.xyz)
  /\ (/\ pc = "returned"
      /\ ret.op = "ijk1"
      /\ ret.args[1] \in Tainted(G))
       => ecl_grid_get_global_index__(G, ret.ijk[1], ret.ijk[2], ret.ijk[3]) = ret.args[1]

\* The shift MAPAXES puts on the corners of the input.
ShiftOf(mapaxes) ==
  IF mapaxes = <<>> THEN <<0, 0>> ELSE <<mapaxes[3], mapaxes[4]>>

\* Corner n of cell c of the input lattice, in map axes.
ExpectedCorner(g, c, n) ==
  LET ijk   == ecl_grid_get_ijk1(g, c)
      shift == ShiftOf(hist.mapaxes)
  IN  point_set(hist.geo.x0 + CellEdge * (ijk[1] + (n % 2)) + shift[1],
                hist.geo.y0 + CellEdge * (ijk[2] + ((n \div 2) % 2)) + shift[2],
                hist.geo.sign * CellEdge
                  * (ijk[3] + (IF c \in hist.geo.flat THEN 0 ELSE n \div 4)))

\* The grid as it was when the taint scan began: no cell marked.
BeforeTaint(g) ==
  [g EXCEPT !.cells = [c \in DOMAIN g.cells |-> [g.cells[c] EXCEPT !.tainted_geometry = FALSE]]]

(***************************************************************************)
(* C16: after the construction by either builder a cell is tainted exactly *)
(* when one of its eight stored corners has x = 0 and y = 0, the stored    *)
(* corners being those of the input after the MAPAXES transform; and the   *)
(* taint scan leaves every other attribute of every cell as it was.        *)
(***************************************************************************)
C16_TaintedIffCornerAtOrigin ==
  pc = "built" =>
    /\ \A c \in DOMAIN G.cells :
         /\ \A n \in 0 .. 7 : G.cells[c].corner_list[n] = ExpectedCorner(G, c, n)
         /\ G.cells[c].tainted_geometry
              <=> \E n \in 0 .. 7 : /\ G.cells[c].corner_list[n].x = 0
                                    /\ G.cells[c].corner_list[n].y = 0
    /\ ecl_grid_taint_cells(BeforeTaint(G)) = G
    /\ BeforeTaint(ecl_grid_taint_cells(BeforeTaint(G))) = BeforeTaint(G)

\* A GRID file with MAPAXES: the corners of the input are not in the origin,
\* the transform moves one there; of two cells one is tainted, one is not.
C16_Witness ==
  /\ pc = "built"
  /\ loader = "GRID"
  /\ hist.mapaxes # <<>>
  /\ hist.geo.x0 # 0
  /\ Tainted(G) # {}
  /\ Tainted(G) # DOMAIN G.cells

\* The cells of the grid that contain the point, by the test of the code.
Holders(g, p) ==
  {c \in DOMAIN g.cells : ecl_cell_contains_point(g.cells[c], p) = "true"}

\* The point and the hint of the last ecl_grid_get_global_index_from_xyz.
LocatePoint == point_set(ret.args[1], ret.args[2], ret.args[3])
LocateHint == ret.args[4]

\* The same point looked for with the hint 0.
LocateFromZero ==
  ecl_grid_get_global_index_from_xyz(G, ret.args[1], ret.args[2], ret.args[3], 0)

Tail_n(seq, n) ==
  SubSeq(seq, Len(seq) - n + 1, Len(seq))

C20_LocateIsSoft ==
  (/\ pc \in {"returned", "aborted"}
   /\ ret.op = "get_global_index_from_xyz")
    => /\ ret.status = "ok"
       /\ ret.val \in {-1} \cup DOMAIN G.cells

\* The last call put the cell's own centre to ecl_grid_cell_contains_xyz1,
\* the cell not tainted and of positive volume.
CentroidQuery ==
  /\ pc \in {"returned", "aborted"}
  /\ ret.op = "cell_contains_xyz1"
  /\ ~ G.cells[ret.args[1]].tainted_geometry
  /\ ecl_cell_get_volume(G.cells[ret.args[1]]) > 0
  /\ G.cells[ret.args[1]].center = point_set(ret.args[2], ret.args[3], ret.args[4])

(***************************************************************************)
(* C21: for every cell that is not tainted and has a positive volume the   *)
(* point-in-cell test, put the cell's own centroid (the mean of its eight  *)
(* corners), returns true: the centroid is not turned down by the z-range  *)
(* test (least z of the corners 0..3, greatest z of the corners 4..7), nor *)
(* by the bounding box in x and y.                                         *)
(***************************************************************************)
C21_CentroidContained ==
  CentroidQuery =>
    /\ ret.status = "ok"
    /\ ret.val = 1
    /\ ecl_cell_min_z(G.cells[ret.args[1]]) <= ret.args[4]
    /\ ret.args[4] <= ecl_cell_max_z(G.cells[ret.args[1]])

\* A grid of one cell whose z is an elevation: the centroid has a smaller
\* z than each of the corners 0..3, and the test says no.
C21_ElevationCentroidRejected ==
  /\ CentroidQuery
  /\ G.size = 1
  /\ hist.geo.sign = -1
  /\ ret.val = 0

\* With z a depth the centroid is found in its cell.
C21_DepthCentroidContained ==
  (CentroidQuery /\ hist.geo.sign = 1) => ret.status = "ok" /\ ret.val = 1

\* The cells of the grid within d of cell c in each of i, j and k.
Neighbourhood(g, c, d) ==
  LET ijk == ecl_grid_get_ijk1(g, c)
  IN  {n \in DOMAIN g.cells :
         LET nijk == ecl_grid_get_ijk1(g, n)
         IN  \A a \in 1 .. 3 : Abs(nijk[a] - ijk[a]) <= d}

\* The tests of a search that found nothing, less those of its full scan
\* (one for every cell of the grid, at the end).
Staged ==
  SubSeq(ret.tested, 1, Len(ret.tested) - G.size)

(***************************************************************************)
(* C22: the staged order of the search.  In a search that found the point  *)
(* nowhere, the tests before the full scan are: the hint cell first; then  *)
(* every cell of the grid within 1 of the hint in i, j and k, each once;   *)
(* then every cell within 2, each once; and no cell is tested twice over   *)
(* the hint test and the two neighbourhoods.                               *)
(***************************************************************************)
C22_StagedSearchOrder ==
  (/\ pc = "returned"
   /\ ret.op = "get_global_index_from_xyz"
   /\ ret.val = -1)
    => LET near == Neighbourhood(G, LocateHint, 1)
           far  == Neighbourhood(G, LocateHint, 2)
       IN  /\ Len(Staged) = Cardinality(far)
           /\ Staged[1] = LocateHint
           /\ {Staged[n] : n \in 1 .. Cardinality(near)} = near
           /\ {Staged[n] : n \in 1 .. Len(Staged)} = far

\* What the code does in such a search: the hint cell, then the cells of
\* the box [i-1, i] x [j-1, j] x [k-1, k], the hint cell among them for the
\* second time, then the cells of [i-2, i+1] x [j-2, j+1] x [k-2, k+1] not
\* yet marked.
C22_HintTestedTwice ==
  (/\ pc = "returned"
   /\ ret.op = "get_global_index_from_xyz"
   /\ ret.val = -1)
    => LET ijk == ecl_grid_get_ijk1(G, LocateHint)
           Box(lo, hi) ==
             {n \in DOMAIN G.cells :
                LET nijk == ecl_grid_get_ijk1(G, n)
                IN  \A a \in 1 .. 3 : ijk[a] - lo <= nijk[a] /\ nijk[a] <= ijk[a] + hi}
       IN  /\ Len(Staged) = 1 + Cardinality(Box(2, 1))
           /\ Staged[1] = LocateHint
           /\ {Staged[n] : n \in 2 .. 1 + Cardinality(Box(1, 0))} = Box(1, 0)
           /\ {Staged[n] : n \in 2 .. Len(Staged)} = Box(2, 1)

\* A row of four cells, the hint 0, the point in none of them.
C22_RowOfFour ==
  /\ pc = "returned"
  /\ ret.op = "get_global_index_from_xyz"
  /\ ret.val = -1
  /\ G.nx = 4
  /\ LocateHint = 0
  /\ Staged = <<0, 0, 1>>

(***************************************************************************)
(* One grid and a sequence of searches on it, each starting when the one   *)
(* before has returned.  The visited array stays with the grid from one    *)
(* search to the next; hist.before is the array as a search found it.      *)
(***************************************************************************)
InitVisit ==
  InitGeo

Visit_alloc_GRDECL_data ==
  /\ pc = "start"
  /\ \E s \in GeoShapes :
       \E geo \in {g \in Geometries(s, <<CellEdge, CellEdge>>) : Cardinality(g.flat) <= 1} :
         /\ grids' = (0 :> ecl_grid_alloc_GRDECL_data__(0, NULL, s[1], s[2], s[3],
                                 ZcornOf(s, geo), CoordOf(s, geo),
                                 [c \in CellsOf(s) |-> 1], <<>>, 0))
         /\ hist' = [geo |-> geo, mapaxes |-> <<>>, before |-> <<>>]
  /\ pc' = "built"
  /\ loader' = "EGRID"
  /\ UNCHANGED <<file, ret>>

Visit_get_global_index_from_xyz ==
  /\ pc = "built"
  /\ \E x \in QueryX, y \in QueryY, z \in QueryZ, start_index \in 0 .. G.size - 1 :
       \E sr \in {ecl_grid_get_global_index_from_xyz(G, x, y, z, start_index)} :
         /\ grids' = [grids EXCEPT ![0] = sr.grid]
         /\ ret' = [op |-> "get_global_index_from_xyz", args |-> <<x, y, z, start_index>>,
                    status |-> IF sr.status = "abort" THEN "abort" ELSE "ok",
                    val |-> sr.val, tested |-> sr.tested]
         /\ pc' = IF sr.status = "abort" THEN "aborted" ELSE "returned"
  /\ hist' = [hist EXCEPT !.before = G.visited]
  /\ UNCHANGED <<loader, file>>

NextVisit ==
  \/ Visit_alloc_GRDECL_data
  \/ Visit_get_global_index_from_xyz
  \/ Resume

SpecVisit == InitVisit /\ [][NextVisit]_vars

\* The grid as it was before any search: no visited array yet.
NeverSearched(g) ==
  [g EXCEPT !.visited = <<>>]

\* The last search, made on the grid that was never searched before.
LocateFresh ==
  ecl_grid_get_global_index_from_xyz(NeverSearched(G), ret.args[1], ret.args[2],
                                     ret.args[3], ret.args[4])

(***************************************************************************)
(* C23: the visited array is cleared at the start of every search.         *)
(* Whatever marks the searches before have left on the grid, the stages of *)
(* a search begin with every mark false, and the search tests the same     *)
(* cells in the same order and returns the same index (or ends in the same *)
(* abort) as on a grid that was never searched.                            *)
(***************************************************************************)
C23_VisitedClearedEveryCall ==
  /\ pc = "built" =>
       \A i \in 0 .. G.size - 1 : ~ ecl_grid_clear_visited(G).visited[i]
  /\ (/\ pc \in {"returned", "aborted"}
      /\ ret.op = "get_global_index_from_xyz")
       => \A fresh \in {LocateFresh} :
            /\ ret.val = fresh.val
            /\ ret.tested = fresh.tested
            /\ (ret.status = "abort") = (fresh.status = "abort")
            /\ G.visited = fresh.grid.visited

\* A search before returned early and left marks; this search found the
\* point in a cell that carried a mark, in its first neighbourhood.
C23_Witness ==
  /\ pc = "returned"
  /\ ret.op = "get_global_index_from_xyz"
  /\ hist.before # <<>>
  /\ ret.val # -1
  /\ ret.val # LocateHint
  /\ hist.before[ret.val]
  /\ \E i \in 0 .. G.size - 1 : ~ hist.before[i]
  /\ Len(ret.tested) <= 3

(***************************************************************************)
(* Two callers search the same grid at the same time.  Nothing in the grid *)
(* or in ecl_grid_get_global_index_from_xyz keeps them apart: the visited  *)
(* array is a field of the grid, and the steps of the two searches come in *)
(* any order.  A step is the clearing of the array, the test of one cell,  *)
(* or the end of a loop.  pc[t] is where caller t stands ("idle", "hint",  *)
(* "near", "far", "scan", "done", "aborted"), ret[t] its arguments, its    *)
(* loop counter and what it returned; hist.foreign says that a caller      *)
(* wrote the array while the search of the other was under way.            *)
(***************************************************************************)
Callers == {1, 2}

Other(t) == 3 - t

InFlight(t) == pc[t] \in {"hint", "near", "far", "scan"}

\* A grid is a row of cells, one layer thick.
RowShapes == {s \in GeoShapes : s[3] = 1}

InitConc ==
  /\ pc = [t \in Callers |-> "start"]
  /\ loader = "none"
  /\ grids = <<>>
  /\ file = <<>>
  /\ hist = <<>>
  /\ ret = [t \in Callers |-> NoCall]

Conc_alloc_GRDECL_data ==
  /\ \A t \in Callers : pc[t] = "start"
  /\ \E s \in RowShapes :
       grids' = (0 :> ecl_grid_alloc_GRDECL_data__(0, NULL, s[1], s[2], s[3],
                        ZcornOf(s, RegularGeometry), CoordOf(s, RegularGeometry),
                        [c \in CellsOf(s) |-> 1], <<>>, 0))
  /\ hist' = [geo |-> RegularGeometry, mapaxes |-> <<>>, foreign |-> FALSE]
  /\ pc' = [t \in Callers |-> "idle"]
  /\ loader' = "EGRID"
  /\ UNCHANGED <<file, ret>>

\* Caller t writes the visited array.
WritesVisited(t) ==
  hist' = [hist EXCEPT !.foreign = @ \/ InFlight(Other(t))]

\* The entry of the search: point_set and ecl_grid_clear_visited.
Conc_clear_visited(t) ==
  /\ pc[t] = "idle"
  /\ \E x \in QueryX, start_index \in 0 .. G.size - 1 :
       ret' = [ret EXCEPT ![t] = [op |-> "get_global_index_from_xyz",
                                  args |-> <<x, G.cells[0].center.y, G.cells[0].center.z,
                                             start_index>>,
                                  n |-> 0, status |-> "ok", val |-> -1]]
  /\ grids' = [grids EXCEPT ![0] = ecl_grid_clear_visited(G)]
  /\ WritesVisited(t)
  /\ pc' = [pc EXCEPT ![t] = "hint"]
  /\ UNCHANGED <<loader, file>>

\* How the test of a cell ends for caller t, who goes on in `next` if the
\* cell does not contain the point.
ConcTest(t, test, next, n) ==
  CASE test.status = "found" ->
         /\ ret' = [ret EXCEPT ![t].val = test.val]
         /\ pc' = [pc EXCEPT ![t] = "done"]
    [] test.status = "abort" ->
         /\ ret' = [ret EXCEPT ![t].status = "abort"]
         /\ pc' = [pc EXCEPT ![t] = "aborted"]
    [] OTHER ->
         /\ ret' = [ret EXCEPT ![t].n = n]
         /\ pc' = [pc EXCEPT ![t] = next]

\* The test of the cell start_index.
Conc_start_index(t) ==
  /\ pc[t] = "hint"
  /\ ConcTest(t, TestCell(Search(G, <<>>, "go", -1), ret[t].args[4],
                          point_set(ret[t].args[1], ret[t].args[2], ret[t].args[3])),
              "near", 0)
  /\ UNCHANGED <<loader, grids, file, hist>>

\* The box of the stage caller t is in.
ConcBox(t) ==
  LET ijk == ecl_grid_get_ijk1(G, ret[t].args[4])
      d   == IF pc[t] = "near" THEN 1 ELSE 2
  IN  [i1 |-> util_int_max(0, ijk[1] - d), i2 |-> util_int_min(G.nx, ijk[1] + d),
       j1 |-> util_int_max(0, ijk[2] - d), j2 |-> util_int_min(G.ny, ijk[2] + d),
       k1 |-> util_int_max(0, ijk[3] - d), k2 |-> util_int_min(G.nz, ijk[3] + d)]

\* One iteration of the loop nest of ecl_grid_box_contains_xyz, or its end.
Conc_box_contains_xyz(t) ==
  /\ pc[t] \in {"near", "far"}
  /\ LET box == ConcBox(t)
         di  == box.i2 - box.i1
         dj  == box.j2 - box.j1
         dk  == box.k2 - box.k1
         n   == ret[t].n
         global_index == ecl_grid_get_global_index__(G, box.i1 + (n % di),
                                                     box.j1 + ((n \div di) % dj),
                                                     box.k1 + (n \div (di * dj)))
     IN  IF n >= di * dj * dk
           THEN /\ pc' = [pc EXCEPT ![t] = IF pc[t] = "near" THEN "far" ELSE "scan"]
                /\ ret' = [ret EXCEPT ![t].n = 0]
                /\ UNCHANGED <<grids, hist>>
           ELSE IF G.visited[global_index]
                  THEN /\ ret' = [ret EXCEPT ![t].n = n + 1]
                       /\ UNCHANGED <<pc, grids, hist>>
                  ELSE /\ grids' = [grids EXCEPT ![0].visited[global_index] = TRUE]
                       /\ WritesVisited(t)
                       /\ ConcTest(t, TestCell(Search(G, <<>>, "go", -1), global_index,
                                               point_set(ret[t].args[1], ret[t].args[2],
                                                         ret[t].args[3])),
                                   pc[t], n + 1)
  /\ UNCHANGED <<loader, file>>

\* One iteration of the full search, or its end.
Conc_linear(t) ==
  /\ pc[t] = "scan"
  /\ LET index == ret[t].n
         current_index == (index + ret[t].args[4]) % G.size
         test == TestCell(Search(G, <<>>, "go", -1), current_index,
                          point_set(ret[t].args[1], ret[t].args[2], ret[t].args[3]))
     IN  IF test.status = "go" /\ index + 1 = G.size
           THEN /\ pc' = [pc EXCEPT ![t] = "done"]
                /\ UNCHANGED ret
           ELSE ConcTest(t, test, "scan", index + 1)
  /\ UNCHANGED <<loader, grids, file, hist>>

NextConc ==
  \/ Conc_alloc_GRDECL_data
  \/ \E t \in Callers :
       \/ Conc_clear_visited(t)
       \/ Conc_start_index(t)
       \/ Conc_box_contains_xyz(t)
       \/ Conc_linear(t)

SpecConc == InitConc /\ [][NextConc]_vars

\* What the search of caller t returns when nobody else uses the grid.
Alone(t) ==
  ecl_grid_get_global_index_from_xyz(NeverSearched(G), ret[t].args[1], ret[t].args[2],
                                     ret[t].args[3], ret[t].args[4])

\* A caller whose search was over before the other began, or began after
\* the other was over, has what the search returns alone.
SerialAsAlone ==
  \A t \in Callers :
    (pc[t] = "done" /\ pc[Other(t)] = "idle" /\ ~ hist.foreign)
      => ret[t].val = Alone(t).val

(***************************************************************************)
(* C24: searches of the same grid that run at the same time do not get in  *)
(* each other's way.  The visited array a search uses is not written or    *)
(* cleared by another search that is under way, and under every order of   *)
(* the steps each search returns the index it returns when it runs alone.  *)
(***************************************************************************)
C24_ConcurrentLocateIndependent ==
  \A t \in Callers :
    pc[t] \in {"done", "aborted"} =>
      /\ ~ hist.foreign
      /\ ret[t].val = Alone(t).val
      /\ (pc[t] = "aborted") = (Alone(t).status = "abort")

\* The weaker half alone: the index returned.
C24_SameIndexAsAlone ==
  \A t \in Callers :
    pc[t] = "done" => ret[t].val = Alone(t).val

(***************************************************************************)
(* The columns of one grid set by several workers, each with its range     *)
(* [j1, j2) of rows: the ranges are a partition of [0, ny).  A step is one *)
(* turn of the outer loop of ecl_grid_init_GRDECL_data__ by one worker:    *)
(* the row j of its range, all columns and layers of it.  ret[r] is the    *)
(* row the worker with range r comes to next.                              *)
(***************************************************************************)
MaxRows == 3   \* ny is at most MaxRows

RowGridShapes ==
  {s \in (1 .. MaxDim) \X (1 .. MaxRows) \X {1} : s[1] * s[2] <= MaxCells}

\* The partitions of [0, ny) into ranges [j1, j2), from the places to cut.
Partitions(ny) ==
  {{r \in (0 .. ny) \X (0 .. ny) :
      /\ r[1] < r[2]
      /\ r[1] \in cuts \cup {0}
      /\ r[2] \in cuts \cup {ny}
      /\ \A c \in cuts : ~ (r[1] < c /\ c < r[2])} : cuts \in SUBSET (1 .. ny - 1)}

\* The grid as ecl_grid_alloc_GRDECL_data__ has it when the columns are set.
BeforeColumns(s, mapaxes) ==
  LET blank == ecl_grid_alloc_empty(0, NULL, s[1], s[2], s[3], 0)
  IN  IF mapaxes # <<>> THEN ecl_grid_init_mapaxes(blank, mapaxes) ELSE blank

InitCol ==
  InitGeo

Col_alloc_empty ==
  /\ pc = "start"
  /\ \E s \in RowGridShapes, mapaxes \in GeoMapaxes :
       \E actnum \in [CellsOf(s) -> {0, 1}], ranges \in Partitions(s[2]) :
         /\ grids' = (0 :> BeforeColumns(s, mapaxes))
         /\ hist' = [s |-> s, geo |-> RegularGeometry, mapaxes |-> mapaxes,
                     actnum |-> actnum, ranges |-> ranges]
         /\ ret' = [r \in ranges |-> r[1]]
  /\ pc' = "building"
  /\ loader' = "EGRID"
  /\ UNCHANGED file

Col_init_GRDECL_data(r) ==
  /\ pc = "building"
  /\ ret[r] < r[2]
  /\ grids' = [grids EXCEPT ![0] =
                 ecl_grid_init_GRDECL_data__(G, ret[r], ret[r] + 1,
                                             ZcornOf(hist.s, hist.geo),
                                             CoordOf(hist.s, hist.geo), hist.actnum)]
  /\ ret' = [ret EXCEPT ![r] = @ + 1]
  /\ UNCHANGED <<pc, loader, file, hist>>

NextCol ==
  \/ Col_alloc_empty
  \/ \E r \in DOMAIN ret : Col_init_GRDECL_data(r)

SpecCol == InitCol /\ [][NextCol]_vars

\* The grid after one pass over all the rows.
OnePass ==
  ecl_grid_init_GRDECL_data__(BeforeColumns(hist.s, hist.mapaxes), 0, hist.s[2],
                              ZcornOf(hist.s, hist.geo), CoordOf(hist.s, hist.geo),
                              hist.actnum)

\* The row of cell c.
RowOf(g, c) ==
  ecl_grid_get_ijk1(g, c)[2]

\* The rows the workers have set so far.
RowsSet ==
  {j \in 0 .. hist.s[2] - 1 : \E r \in DOMAIN ret : r[1] <= j /\ j < ret[r]}

(***************************************************************************)
(* C25: the construction of the columns can be split.  A call of           *)
(* ecl_grid_init_GRDECL_data__ over [j1, j2) writes the cells of the rows  *)
(* j1 .. j2-1 and nothing else of the grid; so with the rows dealt out to  *)
(* workers by any partition of [0, ny), and the workers taking their turns *)
(* in any order, every cell of a row that was set is what one pass over    *)
(* [0, ny) makes it (corners and active flag), every other cell is as it   *)
(* was allocated, and in the end the cells are those of the one pass.      *)
(***************************************************************************)
C25_ColumnsPartitionable ==
  pc = "building" =>
    \A before \in {BeforeColumns(hist.s, hist.mapaxes)}, one \in {OnePass} :
      /\ \A c \in DOMAIN G.cells :
           G.cells[c] = IF RowOf(G, c) \in RowsSet THEN one.cells[c] ELSE before.cells[c]
      /\ [G EXCEPT !.cells = before.cells] = before
      /\ \A r \in DOMAIN ret :
           \A call \in {ecl_grid_init_GRDECL_data__(before, r[1], r[2],
                            ZcornOf(hist.s, hist.geo), CoordOf(hist.s, hist.geo),
                            hist.actnum)} :
             /\ [call EXCEPT !.cells = before.cells] = before
             /\ \A c \in DOMAIN G.cells :
                  call.cells[c] = IF r[1] <= RowOf(G, c) /\ RowOf(G, c) < r[2]
                                    THEN one.cells[c] ELSE before.cells[c]
      /\ (\A r \in DOMAIN ret : ret[r] = r[2]) => G = one

\* Three rows, three workers: the last two rows are set, the first is not;
\* of the cells set one is active and one is not.
C25_Witness ==
  /\ pc = "building"
  /\ hist.s[2] = 3
  /\ Cardinality(DOMAIN ret) = 3
  /\ RowsSet = {1, 2}
  /\ \E c \in DOMAIN G.cells : G.cells[c].active /\ RowOf(G, c) = 2
  /\ \E c \in DOMAIN G.cells : ~ CornersUnset(G.cells[c]) /\ ~ G.cells[c].active

(***************************************************************************)
(* ecl_grid_alloc_empty on its own: a blank main grid, MAPAXES read into   *)
(* it or not, and then a blank grid allocated with the main grid as its    *)
(* global grid, as for an LGR.                                             *)
(***************************************************************************)
InitEmpty ==
  InitGeo

Empty_alloc_main ==
  /\ pc = "start"
  /\ \E s \in Shapes :
       grids' = (0 :> ecl_grid_alloc_empty(0, NULL, s[1], s[2], s[3], 0))
  /\ pc' = "main"
  /\ UNCHANGED <<loader, file, hist, ret>>

Empty_init_mapaxes ==
  /\ pc = "main"
  /\ ~ G.use_mapaxes
  /\ \E mapaxes \in GeoMapaxes \ {<<>>} :
       grids' = [grids EXCEPT ![0] = ecl_grid_init_mapaxes(G, mapaxes)]
  /\ UNCHANGED <<pc, loader, file, hist, ret>>

Empty_alloc_lgr ==
  /\ pc = "main"
  /\ \E s \in Shapes :
       grids' = (1 :> ecl_grid_alloc_empty(1, 0, s[1], s[2], s[3], 1)) @@ grids
  /\ pc' = "lgr"
  /\ UNCHANGED <<loader, file, hist, ret>>

NextEmpty ==
  \/ Empty_alloc_main
  \/ Empty_init_mapaxes
  \/ Empty_alloc_lgr

SpecEmpty == InitEmpty /\ [][NextEmpty]_vars

\* The axis transform of a grid.
TransformOf(g) ==
  [unit_x |-> g.unit_x, unit_y |-> g.unit_y, origo |-> g.origo,
   use_mapaxes |-> g.use_mapaxes]

(***************************************************************************)
(* C26: the axis transform after ecl_grid_alloc_empty.  A grid allocated   *)
(* without a global grid has the identity: unit_x = (1,0), unit_y = (0,1), *)
(* origo = (0,0), use_mapaxes false.  A grid allocated with a global grid  *)
(* has a copy of all of the global grid's transform.  No coefficient is    *)
(* left without a value.                                                   *)
(***************************************************************************)
C26_TransformAfterAlloc ==
  /\ (pc = "main" /\ ~ G.use_mapaxes) =>
       /\ TransformOf(G) = [unit_x |-> <<1, 0>>, unit_y |-> <<0, 1>>, origo |-> <<0, 0>>,
                            use_mapaxes |-> FALSE]
       /\ \A n \in 1 .. 2 : G.unit_x[n] # UNINIT /\ G.unit_y[n] # UNINIT
  /\ pc = "lgr" =>
       /\ TransformOf(grids[1]) = TransformOf(G)
       /\ \A n \in 1 .. 2 : grids[1].unit_x[n] # UNINIT /\ grids[1].unit_y[n] # UNINIT

\* What the code leaves: the first components get the value meant for the
\* second, or the copy of the first; the second components get nothing.  The
\* origin and the flag are as the claim has them.
C26_SecondComponentsUnset ==
  /\ (pc = "main" /\ ~ G.use_mapaxes) =>
       TransformOf(G) = [unit_x |-> <<0, UNINIT>>, unit_y |-> <<1, UNINIT>>,
                         origo |-> <<0, 0>>, use_mapaxes |-> FALSE]
  /\ pc = "lgr" =>
       TransformOf(grids[1]) = [unit_x |-> <<G.unit_x[1], UNINIT>>,
                                unit_y |-> <<G.unit_y[1], UNINIT>>,
                                origo |-> G.origo, use_mapaxes |-> G.use_mapaxes]

\* The global grid has MAPAXES, the grid allocated under it is to use them.
C26_LgrUnderMapaxes ==
  /\ pc = "lgr"
  /\ G.use_mapaxes
  /\ grids[1].use_mapaxes
  /\ grids[1].unit_x[2] = UNINIT

(***************************************************************************)
(* C27: while either loader installs a hierarchy, every index at which a   *)
(* cell of a host grid is addressed is in 0 .. size-1 of that grid, for    *)
(* any HOSTNUM map with entries in 1 .. size and for any COORDS records of *)
(* the LGR cells: no host cell is addressed at -1 or at size, and the load *)
(* does not fault.                                                         *)
(***************************************************************************)
C27_HostIndexInRange ==
  /\ hist.stray = {}
  /\ pc # "segv"

\* An EGRID file: the only cell of the LGR is active, its HOSTNUM entry is
\* the number of cells of the host grid, and the host cell array was
\* addressed there, behind its last element.
C27_HostnumOfLastCell ==
  /\ loader = "EGRID"
  /\ pc = "loading"
  /\ DOMAIN grids = {0, 1}
  /\ grids[1].size = 1
  /\ grids[1].cells[0].active
  /\ grids[1].cells[0].host_cell = grids[0].size - 1
  /\ hist.stray = {grids[0].size}

\* In a GRID file no cell of an LGR is active when ecl_grid_install_lgr_GRID
\* runs: host_cell is not read.
C27_GridPathReadsNoHost ==
  loader = "GRID" =>
    /\ hist.stray = {}
    /\ \A l \in Lgrs : ActiveCells(grids[l]) = {}

\* The grid reached from grid h after n steps along the hosts the loader
\* chose; the main grid has no host and stays where it is.
RECURSIVE HostAfter(_, _)
HostAfter(h, n) ==
  IF n = 0 \/ h \notin DOMAIN hist.host THEN h ELSE HostAfter(hist.host[h], n - 1)

(***************************************************************************)
(* C28: the parent relation of a loaded hierarchy is acyclic and grounded. *)
(* The host the loader chose for an LGR is another grid, with a smaller    *)
(* grid_nr: the main grid or an LGR registered before; the hosts followed  *)
(* from any LGR lead to the main grid; and the parent_grid link, where the *)
(* loader has set it, is that host.                                        *)
(***************************************************************************)
C28_ParentsAcyclic ==
  \A l \in DOMAIN hist.host :
    /\ hist.host[l] # l
    /\ grids[hist.host[l]].grid_nr < grids[l].grid_nr
    /\ HostAfter(l, MaxLgr + 1) = 0
    /\ grids[l].parent_grid \in {NULL, hist.host[l]}
    /\ grids[l].parent_grid # l

\* The part that holds: the host is never an LGR that comes later in the
\* file, and a parent_grid link that is set is the host.
C28_HostNotLater ==
  \A l \in DOMAIN hist.host :
    /\ grids[hist.host[l]].grid_nr <= grids[l].grid_nr
    /\ grids[l].parent_grid \in {NULL, hist.host[l]}

\* An EGRID file whose first LGR names itself as its parent: it is its own
\* host and its own parent_grid.
C28_OwnParent ==
  /\ loader = "EGRID"
  /\ 1 \in DOMAIN hist.host
  /\ hist.host[1] = 1
  /\ grids[1].parent_grid = 1
  /\ grids[1].parent_name = grids[1].name

(***************************************************************************)
(* The layer of a depth in one column.  A column is built from the depths  *)
(* of the upper and the lower face of each of its layers, drawn freely, so *)
(* that the faces of a column need not follow each other downwards.        *)
(***************************************************************************)
MaxLayers == 3

\* The depths a face of a layer may have, and the depths that are asked for.
FaceDepths == {0, CellEdge, 2 * CellEdge}

QueryDepths == {-HalfEdge, 0, HalfEdge, CellEdge, 3 * HalfEdge, 2 * CellEdge, 5 * HalfEdge}

\* layers[k] = <<depth of the upper face, depth of the lower face>> of layer k.
Columns ==
  UNION {[0 .. nz - 1 -> FaceDepths \X FaceDepths] : nz \in 1 .. MaxLayers}

ColumnShape(layers) ==
  <<1, 1, Cardinality(DOMAIN layers)>>

\* The ZCORN keyword of the 1 x 1 x nz column with these layers.
ColumnZcorn(layers) ==
  [idx \in 0 .. 8 * Cardinality(DOMAIN layers) - 1 |->
     layers[idx \div 8][1 + (idx % 8) \div 4]]

ecl_grid_get_top2(g, i, j) ==
  ecl_grid_get_top1(g, ecl_grid_get_global_index__(g, i, j, 0))

ecl_grid_get_bottom2(g, i, j) ==
  ecl_grid_get_bottom1(g, ecl_grid_get_global_index__(g, i, j, g.nz - 1))

\* The loop with every layer measured from its own upper face.
RECURSIVE locate_depth_own_top(_, _, _, _, _)
locate_depth_own_top(g, depth, i, j, k) ==
  LET top    == ecl_grid_get_top3(g, i, j, k)
      bottom == ecl_grid_get_bottom3(g, i, j, k)
  IN  IF top.status # "ok" THEN top
      ELSE IF bottom.status # "ok" THEN bottom
      ELSE IF depth >= top.val /\ depth < bottom.val THEN Res("ok", k)
      ELSE IF k + 1 = g.nz THEN Res("abort", k + 1)
      ELSE locate_depth_own_top(g, depth, i, j, k + 1)

ecl_grid_locate_depth_own_top(g, depth, i, j) ==
  LET top2    == ecl_grid_get_top2(g, i, j)
      bottom2 == ecl_grid_get_bottom2(g, i, j)
  IN  IF top2.status # "ok" THEN top2
      ELSE IF depth < top2.val THEN Res("ok", -1)
      ELSE IF bottom2.status # "ok" THEN bottom2
      ELSE IF depth >= bottom2.val THEN Res("ok", -1 * g.nz)
      ELSE locate_depth_own_top(g, depth, i, j, 0)

\* The while (true) loop: `bottom` is the lower face of the layer before k,
\* the upper face of layer 0 on entry.
RECURSIVE locate_depth_loop(_, _, _, _, _, _)
locate_depth_loop(g, depth, i, j, k, bottom) ==
  LET top  == bottom
      next == ecl_grid_get_bottom3(g, i, j, k)
  IN  IF next.status # "ok" THEN next
      ELSE IF depth >= top /\ depth < next.val THEN Res("ok", k)
      ELSE IF k + 1 = g.nz THEN Res("abort", k + 1)
      ELSE locate_depth_loop(g, depth, i, j, k + 1, next.val)

ecl_grid_locate_depth(g, depth, i, j) ==
  LET top2    == ecl_grid_get_top2(g, i, j)
      bottom2 == ecl_grid_get_bottom2(g, i, j)
  IN  IF top2.status # "ok" THEN top2
      ELSE IF depth < top2.val THEN Res("ok", -1)
      ELSE IF bottom2.status # "ok" THEN bottom2
      ELSE IF depth >= bottom2.val THEN Res("ok", -1 * g.nz)
      ELSE LET top3 == ecl_grid_get_top3(g, i, j, 0)
           IN  IF top3.status # "ok" THEN top3
               ELSE locate_depth_loop(g, depth, i, j, 0, top3.val)

InitDepth ==
  /\ pc = "start"
  /\ loader = "none"
  /\ grids = <<>>
  /\ file = <<>>
  /\ hist = <<>>
  /\ ret = NoCall

Depth_alloc_GRDECL_data ==
  /\ pc = "start"
  /\ \E layers \in Columns :
       \E s \in {ColumnShape(layers)} :
         /\ grids' = (0 :> ecl_grid_alloc_GRDECL_data__(0, NULL, s[1], s[2], s[3],
                                 ColumnZcorn(layers),
                                 CoordOf(s, Geometry(CellEdge, CellEdge, {})),
                                 [c \in CellsOf(s) |-> 1], <<>>, 0))
         /\ hist' = [layers |-> layers]
  /\ pc' = "built"
  /\ loader' = "EGRID"
  /\ UNCHANGED <<file, ret>>

Depth_locate_depth ==
  /\ pc = "built"
  /\ \E depth \in QueryDepths :
       \E r \in {ecl_grid_locate_depth(G, depth, 0, 0)} :
         /\ ret' = [op |-> "locate_depth", args |-> <<depth, 0, 0>>] @@ r
         /\ pc' = IF r.status = "abort" THEN "aborted" ELSE "returned"
  /\ UNCHANGED <<loader, grids, file, hist>>

NextDepth ==
  \/ Depth_alloc_GRDECL_data
  \/ Depth_locate_depth
  \/ Resume

SpecDepth == InitDepth /\ [][NextDepth]_vars

\* The lower face of layer k of the column that was built; the upper face
\* of layer 0 stands in for the layer before it.
FaceAbove(k) ==
  IF k = 0 THEN hist.layers[0][1] ELSE hist.layers[k - 1][2]

FaceBelow(k) ==
  hist.layers[k][2]

\* C29: ecl_grid_locate_depth returns -1 for a depth above the upper face
\* of layer 0, -nz for a depth at or below the lower face of layer nz-1,
\* and in every other case a layer k in [0, nz) with the depth above the
\* lower face of layer k and not above the lower face of layer k-1 (the
\* upper face of layer 0 when k = 0); it never reaches the abort of its
\* loop, whatever the order of the faces in the column.
C29_LocateDepthLayer ==
  (pc \in {"returned", "aborted"} /\ ret.op = "locate_depth") =>
    LET depth == ret.args[1]
        nz    == Cardinality(DOMAIN hist.layers)
    IN  /\ ret.status = "ok"
        /\ pc = "returned"
        /\ depth < FaceAbove(0) => ret.val = -1
        /\ (depth >= FaceAbove(0) /\ depth >= FaceBelow(nz - 1)) => ret.val = -nz
        /\ (depth >= FaceAbove(0) /\ depth < FaceBelow(nz - 1)) =>
             /\ ret.val \in 0 .. nz - 1
             /\ depth < FaceBelow(ret.val)
             /\ depth >= FaceAbove(ret.val)

\* A column whose faces do not follow each other downwards, and a depth
\* that lies above the upper face of the layer that is returned.
C29_Witness ==
  /\ pc = "returned"
  /\ ret.op = "locate_depth"
  /\ Cardinality(DOMAIN hist.layers) = 3
  /\ ret.val = 2
  /\ ret.args[1] < hist.layers[2][1]
  /\ hist.layers[1][2] < hist.layers[0][2]

(***************************************************************************)
(* The cells of a region.  A region keyword is its type and its data, one  *)
(* number for every cell; index_list is the vector the indices are stored  *)
(* in, which may hold the outcome of an earlier call.                      *)
(***************************************************************************)
RegionValues == {1, 2}

RegionShapes == {<<nx, 1, 1>> : nx \in 1 .. MaxRows}

\* Region keywords for a grid of `size` cells, and some that do not fit it.
RegionKws(size) ==
  UNION {{[type |-> "ECL_INT_TYPE", data |-> d] : d \in [0 .. n - 1 -> RegionValues]}
           : n \in (size - 1) .. (size + 1)}
    \cup {[type |-> "ECL_FLOAT_TYPE", data |-> [c \in 0 .. size - 1 |-> 1]]}

\* The for loop from global_index on, with cells_found = Len(index_list).
RECURSIVE region_cells_loop(_, _, _, _, _, _, _)
region_cells_loop(g, region_ptr, region_value, active_only, export_active_index, index_list, global_index) ==
  IF global_index >= g.size THEN index_list
  ELSE region_cells_loop(g, region_ptr, region_value, active_only, export_active_index,
         IF /\ region_ptr[global_index] = region_value
            /\ (~active_only \/ g.index_map[global_index] >= 0)
           THEN Append(index_list, IF export_active_index
                                     THEN g.index_map[global_index]
                                     ELSE global_index)
           ELSE index_list,
         global_index + 1)

ecl_grid_get_region_cells(g, region_kw, region_value, active_only, export_active_index, index_list) ==
  IF ecl_kw_get_size(region_kw) = g.size
    THEN IF region_kw.type = "ECL_INT_TYPE"
           THEN LET stored == region_cells_loop(g, region_kw.data, region_value,
                                active_only, export_active_index, <<>>, 0)
                IN  [status |-> "ok", val |-> Len(stored), index_list |-> stored]
           ELSE [status |-> "abort", val |-> 0, index_list |-> index_list]
    ELSE [status |-> "abort", val |-> 0, index_list |-> index_list]

InitRegion ==
  /\ pc = "start"
  /\ loader = "none"
  /\ grids = <<>>
  /\ file = <<>>
  /\ hist = <<>>
  /\ ret = NoCall

Region_alloc_GRDECL_data ==
  /\ pc = "start"
  /\ \E s \in RegionShapes :
       \E actnum \in [CellsOf(s) -> {0, 1}] :
         \E geo \in {Geometry(CellEdge, CellEdge, {})} :
           /\ grids' = (0 :> ecl_grid_alloc_GRDECL_data__(0, NULL, s[1], s[2], s[3],
                                   ZcornOf(s, geo), CoordOf(s, geo), actnum, <<>>, 0))
           /\ hist' = [actnum |-> actnum, index_list |-> <<>>]
  /\ pc' = "built"
  /\ loader' = "EGRID"
  /\ UNCHANGED <<file, ret>>

\* One call; the vector keeps what the call stored for the call after it.
Region_get_region_cells ==
  /\ pc = "built"
  /\ \E region_kw \in RegionKws(G.size), region_value \in RegionValues,
        active_only \in BOOLEAN, export_active_index \in BOOLEAN :
       \E r \in {ecl_grid_get_region_cells(G, region_kw, region_value, active_only,
                                           export_active_index, hist.index_list)} :
         /\ ret' = [op |-> "get_region_cells",
                    args |-> <<region_kw, region_value, active_only, export_active_index>>,
                    status |-> r.status, val |-> r.val]
         /\ hist' = [hist EXCEPT !.index_list = r.index_list]
         /\ pc' = IF r.status = "abort" THEN "aborted" ELSE "returned"
  /\ UNCHANGED <<loader, grids, file>>

NextRegion ==
  \/ Region_alloc_GRDECL_data
  \/ Region_get_region_cells
  \/ Resume

SpecRegion == InitRegion /\ [][NextRegion]_vars

RegionCalled ==
  pc \in {"returned", "aborted"} /\ ret.op = "get_region_cells"

\* The cells of the grid the last call had to find, from the ACTNUM the
\* grid was built with.
RegionMatches ==
  {c \in DOMAIN hist.actnum :
     /\ c \in DOMAIN ret.args[1].data
     /\ ret.args[1].data[c] = ret.args[2]
     /\ (ret.args[3] => hist.actnum[c] = 1)}

ActiveCount ==
  Cardinality({c \in DOMAIN hist.actnum : hist.actnum[c] = 1})

StoredEntries ==
  {hist.index_list[n] : n \in 1 .. Len(hist.index_list)}

\* The return value and the length of the vector: the number of matching
\* cells when the keyword has one number for every cell, an abort when it
\* has not.
RegionCountAndAbort ==
  IF ecl_kw_get_size(ret.args[1]) = Cardinality(DOMAIN hist.actnum)
    THEN /\ pc = "returned"
         /\ ret.val = Len(hist.index_list)
         /\ ret.val = Cardinality(RegionMatches)
         /\ ~ret.args[4] => StoredEntries = RegionMatches
    ELSE pc = "aborted"

\* C30: on a region array with one integer for every cell,
\* ecl_grid_get_region_cells returns the number of entries it stored, which
\* is the number of cells with the region value (of active such cells with
\* active_only); with export_active_index every entry stored is an active
\* index in [0, total_active), without it a global index in [0, nx*ny*nz);
\* a region array of any other length aborts.
C30_RegionCells ==
  (RegionCalled /\ ret.args[1].type = "ECL_INT_TYPE") =>
    /\ RegionCountAndAbort
    /\ (pc = "returned" /\ ret.args[4]) => StoredEntries \subseteq 0 .. ActiveCount - 1
    /\ (pc = "returned" /\ ~ret.args[4]) => StoredEntries \subseteq 0 .. G.size - 1

\* What the code does with export_active_index: an inactive cell that is
\* stored, which takes active_only false, is stored as -1; the active
\* cells are stored as their active indices.
C30_InactiveStoredAsMinusOne ==
  (RegionCalled /\ ret.args[1].type = "ECL_INT_TYPE") =>
    /\ RegionCountAndAbort
    /\ (pc = "returned" /\ ret.args[4]) =>
         /\ StoredEntries \subseteq -1 .. ActiveCount - 1
         /\ (-1 \in StoredEntries) <=>
              (\E c \in RegionMatches : hist.actnum[c] = 0)
         /\ StoredEntries \ {-1} =
              {G.cells[c].active_index : c \in {m \in RegionMatches : hist.actnum[m] = 1}}
    /\ (pc = "returned" /\ ~ret.args[4]) => StoredEntries \subseteq 0 .. G.size - 1

\* Every cell of a region with an active and an inactive cell, asked for
\* as active indices.
C30_InactiveCellExported ==
  /\ pc = "returned"
  /\ ret.op = "get_region_cells"
  /\ ret.args[3] = FALSE
  /\ ret.args[4] = TRUE
  /\ ret.val = 2
  /\ hist.index_list = <<0, -1>>

====
